---- MODULE Spec2Model ----
(***************************************************************************)
(* Model of the Kaiak Terraform provider's dynamic resource: the schema    *)
(* translator (schema.go) and the instance controller (resource.go).       *)
(*                                                                         *)
(* A Go string is a sequence of tokens; every token stands for a fixed     *)
(* run of bytes and no token is a prefix of another, so two sequences are  *)
(* equal exactly when the strings they spell are equal.  "." "_" and "/"   *)
(* are tokens of their own, which is what strings.SplitN, ReplaceAll and   *)
(* the "block/field" key of buildResourceSchema look at.                   *)
(***************************************************************************)
EXTENDS Integers, Sequences, FiniteSets, TLC

VARIABLES
    meta,        \* r.meta: the resource type's name and descriptors
    client,      \* r.client: TRUE once Configure has supplied a client
    infos,       \* r.infos: the cached attrInfo slice
    built,       \* what the last buildResourceSchema call returned
    remote,      \* the Kaiak server's instances, by fully qualified name
    tfSchema,    \* the schema terraform holds for the resource type
    tfState,     \* the Terraform state of the one resource block
    last,        \* the last handler that ran: its response and its calls
    pc,          \* where each call in flight on the controller stands
    provider,    \* the kaiakProvider: its cached fields and the client it handed out
    environ      \* the process environment (os.Getenv)

vars == <<meta, client, infos, built, remote, tfSchema, tfState, last, pc,
          provider, environ>>

-----------------------------------------------------------------------------
(* Bounds *)

MaxDescriptors == 2
MaxCallers == 2
MaxMembers == 3
MaxElems == 2

-----------------------------------------------------------------------------
(* Strings *)

DOT == "."

\* strings.Index(s, ".") + 1, 0 when there is no dot
IndexDot(s) ==
    IF \E i \in DOMAIN s : s[i] = DOT
    THEN CHOOSE i \in DOMAIN s : s[i] = DOT /\ \A j \in 1..(i - 1) : s[j] # DOT
    ELSE 0

\* strings.SplitN(s, ".", 2)
SplitN2(s) ==
    LET i == IndexDot(s) IN
    IF i = 0 THEN <<s>>
    ELSE <<SubSeq(s, 1, i - 1), SubSeq(s, i + 1, Len(s))>>

\* strings.ReplaceAll(s, ".", "_")
ReplaceDots(s) == [i \in DOMAIN s |-> IF s[i] = DOT THEN "_" ELSE s[i]]

\* strings.HasPrefix(t, p)
HasPrefix(t, p) == Len(t) >= Len(p) /\ SubSeq(t, 1, Len(p)) = p

\* t[n:]
From(t, n) == SubSeq(t, n + 1, Len(t))

-----------------------------------------------------------------------------
(* Type tags and terraform attribute types *)

LIST == <<"[", "]">>
MAPP == <<"map", "[">>

\* strings.Index(t, "]") + 1, 0 when there is none
IndexClose(t) ==
    IF \E i \in DOMAIN t : t[i] = "]"
    THEN CHOOSE i \in DOMAIN t : t[i] = "]" /\ \A j \in 1..(i - 1) : t[j] # "]"
    ELSE 0

\* An attr.Type is written as a sequence: <<"String">>, <<"List", "Int64">>.
RECURSIVE kaiakTypeToAttrType(_)
kaiakMapElemType(t) ==
    LET idx == IndexClose(t) IN
    IF idx > 0 /\ idx < Len(t) THEN kaiakTypeToAttrType(From(t, idx))
    ELSE <<"String">>

kaiakTypeToAttrType(t) ==
    CASE t = <<"bool">> -> <<"Bool">>
      [] t = <<"int">> \/ t = <<"uint">> -> <<"Int64">>
      [] t = <<"float">> -> <<"Float64">>
      [] HasPrefix(t, LIST) -> <<"List">> \o kaiakTypeToAttrType(From(t, 2))
      [] HasPrefix(t, MAPP) -> <<"Map">> \o kaiakMapElemType(t)
      [] OTHER -> <<"String">>

-----------------------------------------------------------------------------
(* Schema translator *)

Descriptor(name, type, required, readOnly) ==
    [Name |-> name, Type |-> type, Required |-> required, ReadOnly |-> readOnly,
     Sensitive |-> FALSE]

newAttrInfo(a) ==
    LET split(parts) ==
            IF Len(parts) = 2
            THEN [kaiakName |-> a.Name, tfBlock |-> parts[1],
                  tfField |-> ReplaceDots(parts[2]), attr |-> a]
            ELSE [kaiakName |-> a.Name, tfBlock |-> <<>>, tfField |-> a.Name,
                  attr |-> a]
    IN split(SplitN2(a.Name))

\* A terraform schema attribute.  ElementType is <<>> for a leaf that is no
\* list or map, Attributes is <<>> for a leaf.
TFAttr(kind, required, optional, computed, sensitive, elem, mods, nested) ==
    [kind |-> kind, Required |-> required, Optional |-> optional,
     Computed |-> computed, Sensitive |-> sensitive, ElementType |-> elem,
     PlanModifiers |-> mods, Attributes |-> nested]

kaiakAttrToTF(a) ==
    LET opt == ~a.Required /\ ~a.ReadOnly
        computed == a.ReadOnly \/ opt
        leaf(kind, elem) ==
            TFAttr(kind, a.Required, opt, computed, a.Sensitive, elem, {}, <<>>)
    IN CASE a.Type = <<"bool">> -> leaf("Bool", <<>>)
         [] a.Type = <<"int">> \/ a.Type = <<"uint">> -> leaf("Int64", <<>>)
         [] a.Type = <<"float">> -> leaf("Float64", <<>>)
         [] HasPrefix(a.Type, LIST) ->
                leaf("List", kaiakTypeToAttrType(From(a.Type, 2)))
         [] HasPrefix(a.Type, MAPP) -> leaf("Map", kaiakMapElemType(a.Type))
         [] OTHER -> leaf("String", <<>>)

\* A translator that reserves no name
reservedNone == {}

reserved == {<<"name">>, <<"id">>}

ErrorDiag(summary, about) == [severity |-> "error", summary |-> summary, about |-> about]
WarningDiag(summary, about) == [severity |-> "warning", summary |-> summary, about |-> about]
HasError(diags) == \E i \in DOMAIN diags : diags[i].severity = "error"

\* The first loop without the collision test: a later descriptor of a pair
\* is kept like the first
RECURSIVE scanAttrsOverwrite(_, _, _, _, _)
scanAttrsOverwrite(kaiakAttrs, i, infoList, seen, diags) ==
    IF i > Len(kaiakAttrs)
    THEN [infos |-> infoList, diags |-> diags]
    ELSE LET a == kaiakAttrs[i]
             step(info) ==
                 IF info.tfBlock = <<>> /\ info.tfField \in reserved
                 THEN scanAttrsOverwrite(kaiakAttrs, i + 1, infoList, seen,
                          Append(diags, ErrorDiag("Reserved attribute name", a.Name)))
                 ELSE scanAttrsOverwrite(kaiakAttrs, i + 1, Append(infoList, info),
                          seen, diags)
         IN step(newAttrInfo(a))

\* The first loop of buildResourceSchema, from descriptor i on.  seen is the
\* set of "block/field" keys already taken.
RECURSIVE scanAttrs(_, _, _, _, _)
scanAttrs(kaiakAttrs, i, infoList, seen, diags) ==
    IF i > Len(kaiakAttrs)
    THEN [infos |-> infoList, diags |-> diags]
    ELSE LET a == kaiakAttrs[i]
             step(info, key) ==
                 IF info.tfBlock = <<>> /\ info.tfField \in reserved
                 THEN scanAttrs(kaiakAttrs, i + 1, infoList, seen,
                          Append(diags, ErrorDiag("Reserved attribute name", a.Name)))
                 ELSE IF key \in seen
                 THEN scanAttrs(kaiakAttrs, i + 1, infoList, seen,
                          Append(diags, ErrorDiag("Attribute naming collision", a.Name)))
                 ELSE scanAttrs(kaiakAttrs, i + 1, Append(infoList, info),
                          seen \cup {key}, diags)
             keyed(info) == step(info, info.tfBlock \o <<"/">> \o info.tfField)
         IN keyed(newAttrInfo(a))

\* tfschema.Schema{}: no attributes
EmptySchema == [Attributes |-> <<>>]

\* The two fixed attributes every schema starts with
fixedAttrs ==
    (<<"name">> :> TFAttr("String", TRUE, FALSE, FALSE, FALSE, <<>>,
                          {"RequiresReplace"}, <<>>))
    @@ (<<"id">> :> TFAttr("String", FALSE, FALSE, TRUE, FALSE, <<>>,
                           {"UseStateForUnknown"}, <<>>))

\* The attributes a block groups, by field
blockMembers(infoList, blockName) ==
    LET idx == {i \in DOMAIN infoList : infoList[i].tfBlock = blockName}
        fields == {infoList[i].tfField : i \in idx}
    IN [f \in fields |->
           kaiakAttrToTF(infoList[CHOOSE i \in idx : infoList[i].tfField = f].attr)]

\* A block that is optional whatever its members are
blockAttrOptional(infoList, blockName) ==
    TFAttr("SingleNested", FALSE, TRUE, TRUE, FALSE, <<>>, {},
           blockMembers(infoList, blockName))

blockAttr(infoList, blockName) ==
    LET block(blockAttrs, required) ==
            TFAttr("SingleNested", required, ~required, ~required, FALSE, <<>>, {},
                   blockAttrs)
        members(blockAttrs) ==
            block(blockAttrs, \E f \in DOMAIN blockAttrs : blockAttrs[f].Required)
    IN members(blockMembers(infoList, blockName))

\* The second half of buildResourceSchema: top-level leaves are written over
\* the fixed attributes, then every block is written over both.
schemaAttributes(infoList) ==
    LET top == {i \in DOMAIN infoList : infoList[i].tfBlock = <<>>}
        topAttrs == [f \in {infoList[i].tfField : i \in top} |->
            kaiakAttrToTF(infoList[CHOOSE i \in top : infoList[i].tfField = f].attr)]
        blockNames == {infoList[i].tfBlock : i \in DOMAIN infoList} \ {<<>>}
        blocks == [b \in blockNames |-> blockAttr(infoList, b)]
    IN blocks @@ topAttrs @@ fixedAttrs

\* infos is a Go slice: isNil tells a nil slice from a non-nil one.  A slice
\* nothing was appended to is nil.
Slice(items) == [isNil |-> items = <<>>, items |-> items]
NilSlice == [isNil |-> TRUE, items |-> <<>>]

buildResourceSchema(resourceName, kaiakAttrs) ==
    LET scanned(scan) ==
            IF HasError(scan.diags)
            THEN [schema |-> EmptySchema, infos |-> NilSlice, diags |-> scan.diags]
            ELSE [schema |-> [Attributes |-> schemaAttributes(scan.infos)],
                  infos |-> Slice(scan.infos), diags |-> scan.diags]
    IN scanned(scanAttrs(kaiakAttrs, 1, <<>>, {}, <<>>))

-----------------------------------------------------------------------------
(* Values *)

\* A Go value held in an `any` (a schema.State entry, a JSON-decoded value):
\* k is its dynamic type, and b, n, s hold the boolean, number or string;
\* vals holds the elements of a []interface{} (a sequence) or of a
\* map[string]interface{} (a function of its keys).
Dyn(k, b, n, s) == [k |-> k, b |-> b, n |-> n, s |-> s, vals |-> <<>>]
DNil == Dyn("nil", FALSE, 0, <<>>)
DBool(b) == Dyn("bool", b, 0, <<>>)
DFloat64(n) == Dyn("float64", FALSE, n, <<>>)
DInt(n) == Dyn("int", FALSE, n, <<>>)
DInt64(n) == Dyn("int64", FALSE, n, <<>>)
DString(s) == Dyn("string", FALSE, 0, s)
DSlice(items) ==
    [k |-> "slice", b |-> FALSE, n |-> 0, s |-> <<>>,
     vals |-> IF DOMAIN items = {} THEN <<>> ELSE items]
DMap(m) ==
    [k |-> "map", b |-> FALSE, n |-> 0, s |-> <<>>,
     vals |-> IF DOMAIN m = {} THEN <<>> ELSE m]

\* The keys of the maps of the model, in the sorted order fmt and the
\* terraform framework print them in
Key(i) == <<"k" \o ToString(i)>>
Keys == {Key(i) : i \in 1..MaxElems}
keysOf(m) == SelectSeq([i \in 1..MaxElems |-> Key(i)], LAMBDA k : k \in DOMAIN m)

\* strings.Join of parts[i..n] with separator sep
RECURSIVE joinFrom(_, _, _, _)
joinFrom(parts, i, n, sep) ==
    IF i > n THEN <<>>
    ELSE (IF i > 1 THEN <<sep>> ELSE <<>>) \o parts[i] \o joinFrom(parts, i + 1, n, sep)

\* fmt.Sprintf("%v", v)
RECURSIVE Sprint(_)
Sprint(v) ==
    CASE v.k = "string" -> v.s
      [] v.k = "bool" -> IF v.b THEN <<"true">> ELSE <<"false">>
      [] v.k \in {"float64", "int", "int64"} -> <<ToString(v.n)>>
      [] v.k = "slice" ->
             <<"[">> \o joinFrom([i \in DOMAIN v.vals |-> Sprint(v.vals[i])], 1,
                                 Len(v.vals), " ") \o <<"]">>
      [] v.k = "map" ->
             LET ks == keysOf(v.vals) IN
             <<"map", "[">>
               \o joinFrom([i \in DOMAIN ks |-> ks[i] \o <<":">> \o Sprint(v.vals[ks[i]])],
                           1, Len(ks), " ")
               \o <<"]">>
      [] OTHER -> <<"<nil>">>

\* encoding/json on the way to the server and back: every number comes back
\* as a float64, inside slices and maps too
RECURSIVE viaJSON(_)
viaJSON(v) ==
    CASE v.k \in {"int", "int64"} -> DFloat64(v.n)
      [] v.k = "slice" -> DSlice([i \in DOMAIN v.vals |-> viaJSON(v.vals[i])])
      [] v.k = "map" -> DMap([k \in DOMAIN v.vals |-> viaJSON(v.vals[k])])
      [] OTHER -> v

\* A timestamp is written as its tokens: date and time of day, an optional
\* fraction of a second, and the zone.
\* Whether time.Parse(time.RFC3339, s) succeeds: Parse accepts a fraction
\* of a second that the layout does not name
parsesRFC3339(s) ==
    /\ Len(s) \in {2, 3}
    /\ s[1] \in {"2024-01-01T00:00:00"}
    /\ s[Len(s)] \in {"Z", "+00:00", "+01:00"}
    /\ Len(s) = 3 => s[2] \in {".5"}

\* parsed.Format(time.RFC3339) of a string that parses: whole seconds, and
\* Z for a zero offset
formatRFC3339(s) == <<s[1], IF s[Len(s)] = "+00:00" THEN "Z" ELSE s[Len(s)]>>

\* A terraform attr.Value: its type, whether it is null, unknown or known,
\* and its content.  attrs holds the members of an object.
TFValue(type, st, b, n, s, attrs) ==
    [type |-> type, st |-> st, b |-> b, n |-> n, s |-> s, attrs |-> attrs,
     elems |-> <<>>]
TFNull(type) == TFValue(type, "null", FALSE, 0, <<>>, <<>>)
TFUnknown(type) == TFValue(type, "unknown", FALSE, 0, <<>>, <<>>)
BoolValue(b) == TFValue(<<"Bool">>, "known", b, 0, <<>>, <<>>)
Int64Value(n) == TFValue(<<"Int64">>, "known", FALSE, n, <<>>, <<>>)
Float64Value(n) == TFValue(<<"Float64">>, "known", FALSE, n, <<>>, <<>>)
StringValue(s) == TFValue(<<"String">>, "known", FALSE, 0, s, <<>>)
ObjectType(attrTypes) == <<"Object", attrTypes>>
ObjectNull(attrTypes) == TFNull(ObjectType(attrTypes))

\* types.ObjectValue: an object of the given members, or an unknown object
\* and an error when a member is not of the type declared for it
ObjectValue(attrTypes, attrValues) ==
    IF \A f \in DOMAIN attrTypes : attrValues[f].type = attrTypes[f]
    THEN [obj |-> TFValue(ObjectType(attrTypes), "known", FALSE, 0, <<>>, attrValues),
          diags |-> <<>>]
    ELSE [obj |-> TFUnknown(ObjectType(attrTypes)),
          diags |-> <<ErrorDiag("Invalid Object Attribute Type", <<>>)>>]

\* types.ListValue and types.MapValue: the value, or an error when an
\* element is not of the element type.  elems holds the elements of a list
\* (a sequence) or of a map (a function of its keys).
ListValue(elemType, elems) ==
    IF \A i \in DOMAIN elems : elems[i].type = elemType
    THEN [val |-> [TFValue(<<"List">> \o elemType, "known", FALSE, 0, <<>>, <<>>)
                      EXCEPT !.elems = IF DOMAIN elems = {} THEN <<>> ELSE elems],
          diags |-> <<>>]
    ELSE [val |-> TFUnknown(<<"List">> \o elemType),
          diags |-> <<ErrorDiag("Invalid List Element Type", <<>>)>>]

MapValue(elemType, elems) ==
    IF \A k \in DOMAIN elems : elems[k].type = elemType
    THEN [val |-> [TFValue(<<"Map">> \o elemType, "known", FALSE, 0, <<>>, <<>>)
                      EXCEPT !.elems = IF DOMAIN elems = {} THEN <<>> ELSE elems],
          diags |-> <<>>]
    ELSE [val |-> TFUnknown(<<"Map">> \o elemType),
          diags |-> <<ErrorDiag("Invalid Map Element Type", <<>>)>>]

IsNull(v) == v.st = "null"
IsUnknown(v) == v.st = "unknown"

\* A null that is a string null whatever the tag is
kaiakNullValueString(t) == TFNull(<<"String">>)

kaiakNullValue(t) ==
    CASE t = <<"bool">> -> TFNull(<<"Bool">>)
      [] t = <<"int">> \/ t = <<"uint">> -> TFNull(<<"Int64">>)
      [] t = <<"float">> -> TFNull(<<"Float64">>)
      [] HasPrefix(t, LIST) -> TFNull(<<"List">> \o kaiakTypeToAttrType(From(t, 2)))
      [] HasPrefix(t, MAPP) -> TFNull(<<"Map">> \o kaiakMapElemType(t))
      [] OTHER -> TFNull(<<"String">>)

\* types.ListValue(elemType, elems), or the null list when it fails
listOrNull(elemType, elems) ==
    IF HasError(ListValue(elemType, elems).diags) THEN TFNull(<<"List">> \o elemType)
    ELSE ListValue(elemType, elems).val

\* types.MapValue(elemType, elems), or the null map when it fails
mapOrNull(elemType, elems) ==
    IF HasError(MapValue(elemType, elems).diags) THEN TFNull(<<"Map">> \o elemType)
    ELSE MapValue(elemType, elems).val

RECURSIVE kaiakValueToTF(_, _)
kaiakSliceToTF(v, t) ==
    IF v.k # "slice" THEN TFNull(<<"List">> \o kaiakTypeToAttrType(From(t, 2)))
    ELSE listOrNull(kaiakTypeToAttrType(From(t, 2)),
                    [i \in DOMAIN v.vals |-> kaiakValueToTF(v.vals[i], From(t, 2))])

kaiakMapToTF(v, t) ==
    IF v.k # "map" THEN TFNull(<<"Map">> \o kaiakMapElemType(t))
    ELSE IF IndexClose(t) = 0 \/ IndexClose(t) >= Len(t) THEN TFNull(<<"Map", "String">>)
    ELSE mapOrNull(kaiakMapElemType(t),
                   [k \in DOMAIN v.vals |->
                       kaiakValueToTF(v.vals[k], From(t, IndexClose(t)))])

kaiakValueToTF(v, t) ==
    IF v.k = "nil" THEN kaiakNullValue(t)
    ELSE CASE t = <<"bool">> /\ v.k = "bool" -> BoolValue(v.b)
           [] (t = <<"int">> \/ t = <<"uint">>) /\ v.k \in {"float64", "int"} ->
                  Int64Value(v.n)
           [] t = <<"float">> /\ v.k \in {"float64", "int"} -> Float64Value(v.n)
           [] HasPrefix(t, LIST) -> kaiakSliceToTF(v, t)
           [] HasPrefix(t, MAPP) -> kaiakMapToTF(v, t)
           [] t = <<"time">> /\ v.k = "string" ->
                  IF parsesRFC3339(v.s) THEN StringValue(formatRFC3339(v.s))
                  ELSE StringValue(v.s)
           [] OTHER -> StringValue(Sprint(v))

-----------------------------------------------------------------------------
(* The terraform record (tfsdk.State, tfsdk.Plan) *)

\* The attr.Type a schema attribute declares
RECURSIVE attrTypeOf(_)
attrTypeOf(a) ==
    IF a.kind = "SingleNested"
    THEN ObjectType([f \in DOMAIN a.Attributes |-> attrTypeOf(a.Attributes[f])])
    ELSE <<a.kind>> \o a.ElementType

\* A record is null as a whole, or holds a value for every schema attribute.
NullState == [isNull |-> TRUE, vals |-> <<>>]

\* tfsdk.State.SetAttribute(ctx, path.Root(field), val) under schema sch
SetAttribute(sch, st, field, val) ==
    IF field \notin DOMAIN sch.Attributes
    THEN [state |-> st, diags |-> <<ErrorDiag("Invalid path", field)>>]
    ELSE IF val.type # attrTypeOf(sch.Attributes[field])
    THEN [state |-> st, diags |-> <<ErrorDiag("Value Conversion Error", field)>>]
    ELSE [state |-> [isNull |-> FALSE,
                     vals |-> [f \in DOMAIN sch.Attributes |->
                         IF f = field THEN val
                         ELSE IF st.isNull THEN TFNull(attrTypeOf(sch.Attributes[f]))
                         ELSE st.vals[f]]],
          diags |-> <<>>]

\* GetAttribute(ctx, path.Root(field), &target) with a target of terraform
\* kind `kind` (types.String, types.Object, ...): the value, or the target's
\* zero value (a null) and an error
GetAttribute(sch, st, field, kind) ==
    IF field \notin DOMAIN sch.Attributes
    THEN [val |-> TFNull(<<kind>>), diags |-> <<ErrorDiag("Invalid path", field)>>]
    ELSE LET type == attrTypeOf(sch.Attributes[field]) IN
         IF type[1] # kind
         THEN [val |-> TFNull(<<kind>>),
               diags |-> <<ErrorDiag("Value Conversion Error", field)>>]
         ELSE [val |-> IF st.isNull THEN TFNull(type) ELSE st.vals[field],
               diags |-> <<>>]

\* types.String.ValueString()
ValueString(v) == IF v.st = "known" THEN v.s ELSE <<>>

-----------------------------------------------------------------------------
(* Instance controller: helpers *)

\* getInfos: the cached slice, built when the cache is nil
getInfos(cached) ==
    IF cached.isNil THEN buildResourceSchema(meta.Name, meta.Attributes).infos
    ELSE cached

fullName(label) == meta.Name \o <<DOT>> \o label

\* The types.X target extractSingleAttr reads a tag into
targetKind(t) ==
    CASE t = <<"bool">> -> "Bool"
      [] t = <<"int">> \/ t = <<"uint">> -> "Int64"
      [] t = <<"float">> -> "Float64"
      [] HasPrefix(t, LIST) -> "List"
      [] HasPrefix(t, MAPP) -> "Map"
      [] OTHER -> "String"

\* attr.Value.String(), which fmt prints a terraform value with
RECURSIVE tfString(_)
tfString(v) ==
    CASE v.st = "null" -> <<"<null>">>
      [] v.st = "unknown" -> <<"<unknown>">>
      [] v.type = <<"Bool">> -> IF v.b THEN <<"true">> ELSE <<"false">>
      [] v.type = <<"Int64">> -> <<ToString(v.n)>>
      [] v.type = <<"Float64">> -> <<ToString(v.n), ".000000">>
      [] v.type = <<"String">> -> <<"\"">> \o v.s \o <<"\"">>
      [] v.type[1] = "List" ->
             <<"[">> \o joinFrom([i \in DOMAIN v.elems |-> tfString(v.elems[i])], 1,
                                 Len(v.elems), ",") \o <<"]">>
      [] v.type[1] = "Map" ->
             LET ks == keysOf(v.elems) IN
             <<"{">>
               \o joinFrom([i \in DOMAIN ks |->
                               <<"\"">> \o ks[i] \o <<"\"", ":">> \o tfString(v.elems[ks[i]])],
                           1, Len(ks), ",")
               \o <<"}">>
      [] OTHER -> <<"<object>">>

\* tfElemToGo: the Go value of an element of a list or map of tag t
tfElemToGo(v, t) ==
    CASE t = <<"bool">> /\ v.type = <<"Bool">> -> DBool(v.b)
      [] (t = <<"int">> \/ t = <<"uint">>) /\ v.type = <<"Int64">> -> DInt64(v.n)
      [] t = <<"float">> /\ v.type = <<"Float64">> -> DFloat64(v.n)
      [] OTHER -> IF v.type = <<"String">> THEN DString(ValueString(v))
                  ELSE DString(tfString(v))

tfListToKaiak(list, elemType) ==
    DSlice([i \in DOMAIN list.elems |-> tfElemToGo(list.elems[i], elemType)])

tfMapToKaiak(m, valType) ==
    DMap([k \in DOMAIN m.elems |-> tfElemToGo(m.elems[k], valType)])

\* Whether a map tag names its value type: the idx test of the map cases
mapTagOk(t) ==
    HasPrefix(t, MAPP) => (IndexClose(t) > 0 /\ IndexClose(t) < Len(t))

\* The Go value extractSingleAttr and extractBlockAttr store for a known
\* terraform value of tag t: ValueBool, ValueInt64, ..., tfListToKaiak
goValue(v, t) ==
    CASE t = <<"bool">> -> DBool(v.b)
      [] t = <<"int">> \/ t = <<"uint">> -> DInt64(v.n)
      [] t = <<"float">> -> DFloat64(v.n)
      [] HasPrefix(t, LIST) -> tfListToKaiak(v, From(t, 2))
      [] HasPrefix(t, MAPP) -> tfMapToKaiak(v, From(t, IndexClose(t)))
      [] OTHER -> DString(ValueString(v))

\* extractSingleAttr: state and diagnostics after reading one top-level
\* attribute of src
extractSingleAttr(sch, src, info, acc) ==
    LET read(v, diags) ==
            [state |-> IF ~IsNull(v) /\ ~IsUnknown(v) /\ mapTagOk(info.attr.Type)
                       THEN (info.kaiakName :> goValue(v, info.attr.Type)) @@ acc.state
                       ELSE acc.state,
             diags |-> acc.diags \o diags]
        target(got) == read(got.val, got.diags)
    IN target(GetAttribute(sch, src, info.tfField, targetKind(info.attr.Type)))

\* extractBlockAttr: state after reading member v of a block object
extractBlockAttr(info, v, state) ==
    IF v.type[1] = targetKind(info.attr.Type) /\ ~IsNull(v) /\ ~IsUnknown(v)
       /\ mapTagOk(info.attr.Type)
    THEN (info.kaiakName :> goValue(v, info.attr.Type)) @@ state
    ELSE state

\* The first loop of extractAttrs, from item i on
RECURSIVE extractTop(_, _, _, _, _)
extractTop(sch, src, list, acc, i) ==
    IF i > Len(list) THEN acc
    ELSE IF list[i].attr.ReadOnly \/ list[i].tfBlock # <<>>
    THEN extractTop(sch, src, list, acc, i + 1)
    ELSE extractTop(sch, src, list, extractSingleAttr(sch, src, list[i], acc), i + 1)

\* The members of one block, from item i on; block is the object read
RECURSIVE extractMembers(_, _, _, _, _)
extractMembers(list, blockName, block, state, i) ==
    IF i > Len(list) THEN state
    ELSE IF list[i].attr.ReadOnly \/ list[i].tfBlock # blockName
            \/ list[i].tfField \notin DOMAIN block.attrs
    THEN extractMembers(list, blockName, block, state, i + 1)
    ELSE extractMembers(list, blockName, block,
             extractBlockAttr(list[i], block.attrs[list[i].tfField], state), i + 1)

\* The block loop of extractAttrs, from item i on; a block is read at its
\* first writable member, and the blocks fill different keys
RECURSIVE extractBlocks(_, _, _, _, _)
extractBlocks(sch, src, list, acc, i) ==
    IF i > Len(list) THEN acc
    ELSE IF list[i].attr.ReadOnly \/ list[i].tfBlock = <<>>
            \/ \E j \in 1..(i - 1) :
                   ~list[j].attr.ReadOnly /\ list[j].tfBlock = list[i].tfBlock
    THEN extractBlocks(sch, src, list, acc, i + 1)
    ELSE LET read(block, diags) ==
                 IF IsNull(block) \/ IsUnknown(block)
                 THEN extractBlocks(sch, src, list,
                          [state |-> acc.state, diags |-> diags], i + 1)
                 ELSE extractBlocks(sch, src, list,
                          [state |-> extractMembers(list, list[i].tfBlock, block,
                                                    acc.state, i),
                           diags |-> diags], i + 1)
             target(got) == read(got.val, acc.diags \o got.diags)
         IN target(GetAttribute(sch, src, list[i].tfBlock, "Object"))

\* extractAttrs: the attributes to send, by kaiak name, and the diagnostics
extractAttrs(sch, src, infoSlice) ==
    extractBlocks(sch, src, infoSlice.items,
        extractTop(sch, src, infoSlice.items, [state |-> <<>>, diags |-> <<>>], 1), 1)

\* A schema.State handed to writeState: nil (Read) or a map
NilAttrs == [isNil |-> TRUE, m |-> <<>>]
Attrs(m) == [isNil |-> FALSE, m |-> m]

\* A merge in which the planned value wins over the server's
mergePlannedWins(kaiakState, plannedAttrs, infoSlice) ==
    IF plannedAttrs.isNil THEN kaiakState ELSE plannedAttrs.m @@ kaiakState

\* The merge of writeState: the server's state, then the planned value of
\* every writable attribute the server's state has no key for
mergeState(kaiakState, plannedAttrs, infoSlice) ==
    LET list == infoSlice.items
        back == IF plannedAttrs.isNil THEN {}
                ELSE {list[i].kaiakName : i \in {j \in DOMAIN list :
                        /\ ~list[j].attr.ReadOnly
                        /\ list[j].kaiakName \notin DOMAIN kaiakState
                        /\ list[j].kaiakName \in DOMAIN plannedAttrs.m}}
    IN [k \in DOMAIN kaiakState \cup back |->
           IF k \in DOMAIN kaiakState THEN kaiakState[k] ELSE plannedAttrs.m[k]]

\* merged[k] of a Go map: the nil interface when there is no key k
lookup(m, k) == IF k \in DOMAIN m THEN m[k] ELSE DNil

\* The SetAttribute calls of writeState from item i on: one per top-level
\* attribute, in slice order
RECURSIVE writeTop(_, _, _, _, _)
writeTop(sch, acc, list, merged, i) ==
    IF i > Len(list) THEN acc
    ELSE IF list[i].tfBlock # <<>> THEN writeTop(sch, acc, list, merged, i + 1)
    ELSE LET set(r) ==
                 writeTop(sch, [state |-> r.state, diags |-> acc.diags \o r.diags],
                          list, merged, i + 1)
         IN set(SetAttribute(sch, acc.state, list[i].tfField,
                    kaiakValueToTF(lookup(merged, list[i].kaiakName),
                                   list[i].attr.Type)))

\* The value writeState sets a block to, and the diagnostics of building it
blockValue(list, merged, blockName) ==
    LET idx == {i \in DOMAIN list : list[i].tfBlock = blockName}
        at(f) == list[CHOOSE i \in idx : list[i].tfField = f]
        fields == {list[i].tfField : i \in idx}
        attrTypes == [f \in fields |-> kaiakTypeToAttrType(at(f).attr.Type)]
        present(f) == at(f).kaiakName \in DOMAIN merged
                      /\ merged[at(f).kaiakName].k # "nil"
        attrValues == [f \in fields |->
            IF present(f) THEN kaiakValueToTF(merged[at(f).kaiakName], at(f).attr.Type)
            ELSE kaiakNullValue(at(f).attr.Type)]
        hasValue == \E f \in fields : present(f)
    IN IF hasValue THEN ObjectValue(attrTypes, attrValues)
       ELSE [obj |-> ObjectNull(attrTypes), diags |-> <<>>]

\* The SetAttribute calls of writeState for the blocks; a block is written at
\* its first member, and the blocks touch different attributes
RECURSIVE writeBlocks(_, _, _, _, _)
writeBlocks(sch, acc, list, merged, i) ==
    IF i > Len(list) THEN acc
    ELSE IF list[i].tfBlock = <<>>
            \/ \E j \in 1..(i - 1) : list[j].tfBlock = list[i].tfBlock
    THEN writeBlocks(sch, acc, list, merged, i + 1)
    ELSE LET set(bv, r) ==
                 writeBlocks(sch,
                     [state |-> r.state, diags |-> acc.diags \o bv.diags \o r.diags],
                     list, merged, i + 1)
             object(bv) == set(bv, SetAttribute(sch, acc.state, list[i].tfBlock, bv.obj))
         IN object(blockValue(list, merged, list[i].tfBlock))

\* writeState once GetResourceInstance has returned kaiakState: the record
\* and the diagnostics it adds
writeFetched(sch, name, st, kaiakState, plannedAttrs, infoSlice) ==
    LET write(idSet, merged) ==
            writeBlocks(sch,
                writeTop(sch, [state |-> idSet.state, diags |-> idSet.diags],
                         infoSlice.items, merged, 1),
                infoSlice.items, merged, 1)
    IN write(SetAttribute(sch, st, <<"id">>, StringValue(name)),
             mergeState(kaiakState, plannedAttrs, infoSlice))

-----------------------------------------------------------------------------
(* Instance controller: the remote store *)

\* One request to the Kaiak server, as the handler made it, and whether it
\* succeeded
Call(op, name, force, attrs, ok) ==
    [op |-> op, name |-> name, force |-> force, attrs |-> attrs, ok |-> ok,
     apply |-> FALSE]

\* UpdateResourceInstance(ctx, name, UpdateResourceInstanceRequest{Attributes:
\* attrs, Apply: apply})
UpdateCall(name, attrs, apply, ok) ==
    [op |-> "update", name |-> name, force |-> FALSE, attrs |-> attrs, ok |-> ok,
     apply |-> apply]

\* The server after a successful update: it keeps the attributes of `echo`
\* and may keep none of the others
applied(state, attrs, echo) ==
    LET kept == DOMAIN attrs \cap echo IN
    [k \in DOMAIN state \cup kept |->
        IF k \in kept THEN viaJSON(attrs[k]) ELSE state[k]]

without(rem, name) == [n \in DOMAIN rem \ {name} |-> rem[n]]

\* What a handler leaves behind: the record of its response, its
\* diagnostics, the requests it made, the server and the cache
Resp(state, diags, calls, rem, cache) ==
    [state |-> state, diags |-> diags, calls |-> calls, remote |-> rem,
     infos |-> cache]

\* A guard that lets every call through
requireClientAlways == TRUE

requireClient == client
NotConfigured == <<ErrorDiag("Resource not configured", <<>>)>>

-----------------------------------------------------------------------------
(* Instance controller: the handlers.  ok[i] is the server's answer to the   *)
(* handler's i-th request if the request can be served.                      *)

\* A writeState that sets `id` before it fetches the instance
writeStateEager(name, st, diags, calls, plannedAttrs, rem, cache, getOk) ==
    LET idSet == SetAttribute(tfSchema, st, <<"id">>, StringValue(name)) IN
    IF ~(getOk /\ name \in DOMAIN rem)
    THEN Resp(idSet.state,
              Append(diags, ErrorDiag("Failed to read resource instance", name)),
              Append(calls, Call("get", name, FALSE, <<>>, FALSE)), rem, cache)
    ELSE LET wrote(w, infoSlice) ==
                 Resp(w.state, diags \o w.diags,
                      Append(calls, Call("get", name, FALSE, <<>>, TRUE)), rem,
                      infoSlice)
             fetched(infoSlice) ==
                 wrote(writeFetched(tfSchema, name, st, rem[name], plannedAttrs,
                                    infoSlice), infoSlice)
         IN fetched(getInfos(cache))

writeState(name, st, diags, calls, plannedAttrs, rem, cache, getOk) ==
    IF ~(getOk /\ name \in DOMAIN rem)
    THEN Resp(st,
              Append(diags, ErrorDiag("Failed to read resource instance", name)),
              Append(calls, Call("get", name, FALSE, <<>>, FALSE)), rem, cache)
    ELSE LET wrote(w, infoSlice) ==
                 Resp(w.state, diags \o w.diags,
                      Append(calls, Call("get", name, FALSE, <<>>, TRUE)), rem,
                      infoSlice)
             fetched(infoSlice) ==
                 wrote(writeFetched(tfSchema, name, st, rem[name], plannedAttrs,
                                    infoSlice), infoSlice)
         IN fetched(getInfos(cache))

\* A compensating destroy that reports nothing when it fails
cleanupSilent(name, calls, rem, ok) ==
    [calls |-> Append(calls, Call("destroy", name, FALSE, <<>>, ok)),
     remote |-> IF ok THEN without(rem, name) ELSE rem,
     diags |-> <<>>]

\* The compensating destroy of Create
cleanup(name, calls, rem, ok) ==
    [calls |-> Append(calls, Call("destroy", name, FALSE, <<>>, ok)),
     remote |-> IF ok THEN without(rem, name) ELSE rem,
     diags |-> IF ok THEN <<>> ELSE <<WarningDiag("Cleanup failed", name)>>]

\* A Create that sends the update request even when there is nothing to send
CreateAlwaysUpdates(plan, label, init, echo, ok) ==
    IF ~requireClient THEN Resp(NullState, NotConfigured, <<>>, remote, infos)
    ELSE
    LET name == fullName(label)
        c1 == <<Call("create", name, FALSE, <<>>, ok[1])>>
    IN
    IF ~ok[1]
    THEN Resp(NullState, <<ErrorDiag("Failed to create resource instance", name)>>,
              c1, remote, infos)
    ELSE
    LET rem1 == (name :> init) @@ remote
        failed(d, diags, cache) ==
            Resp(NullState, diags \o d.diags, d.calls, d.remote, cache)
        failedApply(d, diags, cache) ==
            Resp(NullState,
                 diags \o d.diags \o <<ErrorDiag("Failed to apply attributes", name)>>,
                 d.calls, d.remote, cache)
        created(cache, attrs, diags) ==
            IF HasError(diags)
            THEN failed(cleanup(name, c1, rem1, ok[2]), diags, cache)
            ELSE IF ~ok[2]
            THEN failedApply(
                     cleanup(name, Append(c1, UpdateCall(name, attrs, TRUE, FALSE)),
                             rem1, ok[3]),
                     diags, cache)
            ELSE IF TRUE
            THEN writeState(name, NullState, diags,
                            Append(c1, UpdateCall(name, attrs, TRUE, TRUE)),
                            Attrs(attrs),
                            [rem1 EXCEPT ![name] = applied(rem1[name], attrs, echo)],
                            cache, ok[3])
            ELSE writeState(name, NullState, diags, c1, Attrs(attrs), rem1, cache,
                            ok[2])
        extracted(cache, ext) == created(cache, ext.state, ext.diags)
        cached(cache) == extracted(cache, extractAttrs(tfSchema, plan, cache))
    IN cached(getInfos(infos))

Create(plan, label, init, echo, ok) ==
    IF ~requireClient THEN Resp(NullState, NotConfigured, <<>>, remote, infos)
    ELSE
    LET name == fullName(label)
        c1 == <<Call("create", name, FALSE, <<>>, ok[1])>>
    IN
    IF ~ok[1]
    THEN Resp(NullState, <<ErrorDiag("Failed to create resource instance", name)>>,
              c1, remote, infos)
    ELSE
    LET rem1 == (name :> init) @@ remote
        failed(d, diags, cache) ==
            Resp(NullState, diags \o d.diags, d.calls, d.remote, cache)
        failedApply(d, diags, cache) ==
            Resp(NullState,
                 diags \o d.diags \o <<ErrorDiag("Failed to apply attributes", name)>>,
                 d.calls, d.remote, cache)
        created(cache, attrs, diags) ==
            IF HasError(diags)
            THEN failed(cleanup(name, c1, rem1, ok[2]), diags, cache)
            ELSE IF DOMAIN attrs # {} /\ ~ok[2]
            THEN failedApply(
                     cleanup(name, Append(c1, UpdateCall(name, attrs, TRUE, FALSE)),
                             rem1, ok[3]),
                     diags, cache)
            ELSE IF DOMAIN attrs # {}
            THEN writeState(name, NullState, diags,
                            Append(c1, UpdateCall(name, attrs, TRUE, TRUE)),
                            Attrs(attrs),
                            [rem1 EXCEPT ![name] = applied(rem1[name], attrs, echo)],
                            cache, ok[3])
            ELSE writeState(name, NullState, diags, c1, Attrs(attrs), rem1, cache,
                            ok[2])
        extracted(cache, ext) == created(cache, ext.state, ext.diags)
        cached(cache) == extracted(cache, extractAttrs(tfSchema, plan, cache))
    IN cached(getInfos(infos))

Read(ok) ==
    IF ~requireClient THEN Resp(tfState, NotConfigured, <<>>, remote, infos)
    ELSE
    LET id == GetAttribute(tfSchema, tfState, <<"id">>, "String") IN
    IF HasError(id.diags) THEN Resp(tfState, id.diags, <<>>, remote, infos)
    ELSE writeState(ValueString(id.val), tfState, id.diags, <<>>, NilAttrs, remote,
                    infos, ok[1])

\* An Update that reads the instance back without the submitted values
UpdateNoFallback(plan, echo, ok) ==
    IF ~requireClient THEN Resp(tfState, NotConfigured, <<>>, remote, infos)
    ELSE
    LET id == GetAttribute(tfSchema, tfState, <<"id">>, "String") IN
    IF HasError(id.diags) THEN Resp(tfState, id.diags, <<>>, remote, infos)
    ELSE
    LET name == ValueString(id.val)
        served == ok[1] /\ name \in DOMAIN remote
        updated(cache, attrs, diags, c1) ==
            IF HasError(diags) THEN Resp(tfState, diags, <<>>, remote, cache)
            ELSE IF ~served
            THEN Resp(tfState,
                      Append(diags,
                             ErrorDiag("Failed to update resource instance", name)),
                      c1, remote, cache)
            ELSE writeState(name, tfState, diags, c1, NilAttrs,
                            [remote EXCEPT ![name] =
                                applied(remote[name], attrs, echo)],
                            cache, ok[2])
        extracted(cache, ext) ==
            updated(cache, ext.state, id.diags \o ext.diags,
                    <<UpdateCall(name, ext.state, TRUE, served)>>)
        cached(cache) == extracted(cache, extractAttrs(tfSchema, plan, cache))
    IN cached(getInfos(infos))

Update(plan, echo, ok) ==
    IF ~requireClient THEN Resp(tfState, NotConfigured, <<>>, remote, infos)
    ELSE
    LET id == GetAttribute(tfSchema, tfState, <<"id">>, "String") IN
    IF HasError(id.diags) THEN Resp(tfState, id.diags, <<>>, remote, infos)
    ELSE
    LET name == ValueString(id.val)
        served == ok[1] /\ name \in DOMAIN remote
        updated(cache, attrs, diags, c1) ==
            IF HasError(diags) THEN Resp(tfState, diags, <<>>, remote, cache)
            ELSE IF ~served
            THEN Resp(tfState,
                      Append(diags,
                             ErrorDiag("Failed to update resource instance", name)),
                      c1, remote, cache)
            ELSE writeState(name, tfState, diags, c1, Attrs(attrs),
                            [remote EXCEPT ![name] =
                                applied(remote[name], attrs, echo)],
                            cache, ok[2])
        extracted(cache, ext) ==
            updated(cache, ext.state, id.diags \o ext.diags,
                    <<UpdateCall(name, ext.state, TRUE, served)>>)
        cached(cache) == extracted(cache, extractAttrs(tfSchema, plan, cache))
    IN cached(getInfos(infos))

\* A Delete that removes the record whatever the server answers
DeleteRemovesAnyway(ok) ==
    IF ~requireClient THEN Resp(tfState, NotConfigured, <<>>, remote, infos)
    ELSE
    LET id == GetAttribute(tfSchema, tfState, <<"id">>, "String")
        name == ValueString(id.val)
        c1 == <<Call("destroy", name, FALSE, <<>>, ok[1])>>
    IN
    IF HasError(id.diags) THEN Resp(tfState, id.diags, <<>>, remote, infos)
    ELSE IF ~ok[1]
    THEN Resp(NullState,
              Append(id.diags, ErrorDiag("Failed to destroy resource instance", name)),
              c1, remote, infos)
    ELSE Resp(NullState, id.diags, c1, without(remote, name), infos)

Delete(ok) ==
    IF ~requireClient THEN Resp(tfState, NotConfigured, <<>>, remote, infos)
    ELSE
    LET id == GetAttribute(tfSchema, tfState, <<"id">>, "String") IN
    IF HasError(id.diags) THEN Resp(tfState, id.diags, <<>>, remote, infos)
    ELSE
    LET name == ValueString(id.val)
        c1 == <<Call("destroy", name, FALSE, <<>>, ok[1])>>
    IN
    IF ~ok[1]
    THEN Resp(tfState,
              Append(id.diags, ErrorDiag("Failed to destroy resource instance", name)),
              c1, remote, infos)
    ELSE Resp(NullState, id.diags, c1, without(remote, name), infos)

\* An ImportState that accepts the ID of any resource type
ImportStateAnyType(id) ==
    LET parts == SplitN2(id) IN
    IF Len(parts) # 2 \/ parts[1] = <<>> \/ parts[2] = <<>>
    THEN Resp(NullState, <<ErrorDiag("Invalid import ID", id)>>, <<>>, remote, infos)
    ELSE LET s1 == SetAttribute(tfSchema, NullState, <<"id">>, StringValue(id))
             s2 == SetAttribute(tfSchema, s1.state, <<"name">>,
                                StringValue(parts[2]))
         IN Resp(s2.state, s1.diags \o s2.diags, <<>>, remote, infos)

\* An ImportState that fetches the instance and fills the record in
ImportStateWithRead(id) ==
    LET parts == SplitN2(id) IN
    IF Len(parts) # 2 \/ parts[1] = <<>> \/ parts[2] = <<>>
    THEN Resp(NullState, <<ErrorDiag("Invalid import ID", id)>>, <<>>, remote, infos)
    ELSE IF parts[1] # meta.Name
    THEN Resp(NullState, <<ErrorDiag("Resource type mismatch", id)>>, <<>>, remote,
              infos)
    ELSE LET s1 == SetAttribute(tfSchema, NullState, <<"id">>, StringValue(id))
             s2 == SetAttribute(tfSchema, s1.state, <<"name">>,
                                StringValue(parts[2]))
         IN writeState(id, s2.state, s1.diags \o s2.diags, <<>>, NilAttrs, remote,
                       infos, TRUE)

ImportState(id) ==
    LET parts == SplitN2(id) IN
    IF Len(parts) # 2 \/ parts[1] = <<>> \/ parts[2] = <<>>
    THEN Resp(NullState, <<ErrorDiag("Invalid import ID", id)>>, <<>>, remote, infos)
    ELSE IF parts[1] # meta.Name
    THEN Resp(NullState, <<ErrorDiag("Resource type mismatch", id)>>, <<>>, remote,
              infos)
    ELSE LET s1 == SetAttribute(tfSchema, NullState, <<"id">>, StringValue(id))
             s2 == SetAttribute(tfSchema, s1.state, <<"name">>,
                                StringValue(parts[2]))
         IN Resp(s2.state, s1.diags \o s2.diags, <<>>, remote, infos)

-----------------------------------------------------------------------------
(* Inputs *)

STRING_T == <<"string">>
INT_T == <<"int">>

ResourceName == <<"httpserver">>

\* Descriptor names: reserved names, a block whose name is reserved, two
\* names that meet in block "tls" field "cert_key", a name that is also a block
AttrNames ==
    { <<"name">>, <<"id">>, <<"x">>, <<"tls">>,
      <<"name", DOT, "x">>, <<"id", DOT, "x">>,
      <<"tls", DOT, "cert", "_", "key">>, <<"tls", DOT, "cert", DOT, "key">> }

Descriptors ==
    { Descriptor(n, t, rq, ro) :
        n \in AttrNames, t \in {STRING_T, INT_T}, rq \in BOOLEAN, ro \in BOOLEAN }

RECURSIVE SeqsUpTo(_, _)
SeqsUpTo(S, n) ==
    IF n = 0 THEN {<<>>}
    ELSE LET shorter == SeqsUpTo(S, n - 1)
         IN shorter \cup {Append(q, x) : q \in {r \in shorter : Len(r) = n - 1}, x \in S}

DescriptorLists == SeqsUpTo(Descriptors, MaxDescriptors)

\* The resource types the controller is exercised with: leaves and a block,
\* a number, a leaf hidden by the block of its name, a block named `id`, and
\* no attribute at all
ControllerAttributes ==
    { <<Descriptor(<<"listen">>, STRING_T, FALSE, FALSE),
        Descriptor(<<"status">>, STRING_T, FALSE, TRUE),
        Descriptor(<<"tls", DOT, "cert">>, STRING_T, FALSE, FALSE)>>,
      <<Descriptor(<<"port">>, INT_T, FALSE, FALSE)>>,
      <<Descriptor(<<"tls">>, STRING_T, FALSE, FALSE),
        Descriptor(<<"tls", DOT, "cert">>, STRING_T, FALSE, FALSE)>>,
      <<Descriptor(<<"id", DOT, "x">>, STRING_T, FALSE, FALSE)>>,
      <<>> }

Labels == {<<"tf_1">>}

ImportIDs ==
    { <<"httpserver", DOT, "docs">>, <<"httpstatic", DOT, "docs">>, <<"badid">>,
      <<DOT, "docs">>, <<"httpserver", DOT>>, <<"httpserver", DOT, "a", DOT, "b">> }

\* The value the server reports for an attribute, and the one a plan sets
serverValue(t) == IF t = INT_T THEN DFloat64(1) ELSE DString(<<"s1">>)
RECURSIVE plannedValue(_)
plannedValue(type) ==
    CASE type = <<"Int64">> -> Int64Value(2)
      [] type = <<"Bool">> -> BoolValue(TRUE)
      [] type = <<"Float64">> -> Float64Value(3)
      [] type[1] = "List" -> ListValue(Tail(type), <<plannedValue(Tail(type))>>).val
      [] type[1] = "Map" ->
             MapValue(Tail(type), Key(1) :> plannedValue(Tail(type))).val
      [] OTHER -> StringValue(<<"v1">>)

-----------------------------------------------------------------------------
(* The provider (provider.go): endpoint and API key *)

\* The endpoint resolveEndpoint falls back to
DefaultEndpoint == "http://localhost:8084/api"

\* A process environment with neither variable set (os.Getenv gives "")
Unset == [KAIAK_ENDPOINT |-> "", KAIAK_API_KEY |-> ""]

\* No client: a nil ResourceData, a nil *httpclient.Client
NoClient == [endpoint |-> "", token |-> "", valid |-> FALSE]

\* New(v)(): the cached fields are empty; the framework holds no ResourceData
NewProvider == [endpoint |-> "", apiKey |-> "", ResourceData |-> NoClient]

resolveEndpoint ==
    IF environ.KAIAK_ENDPOINT # "" THEN environ.KAIAK_ENDPOINT ELSE DefaultEndpoint

resolveApiKey == environ.KAIAK_API_KEY

\* httpclient.New(endpoint, opts...): fails on an endpoint that is no URL;
\* the token option is only given for a non-empty key
httpclientNew(endpoint, apiKey) ==
    IF endpoint \in {"env endpoint", "config endpoint"} THEN NoClient
    ELSE [endpoint |-> endpoint, token |-> apiKey, valid |-> TRUE]

\* kaiakProvider.Configure, for the provider blocks of a configuration
\* (ValueString() of a null or unknown attribute is "") and a req.Config.Get
\* that succeeds or not
ProviderConfigure ==
    \E config \in [Endpoint : {"", "http://config:8084/api", "config endpoint"},
                   ApiKey : {"", "config-key"}], read \in BOOLEAN :
       LET endpoint == IF config.Endpoint = "" THEN resolveEndpoint ELSE config.Endpoint
           apiKey == IF config.ApiKey = "" THEN resolveApiKey ELSE config.ApiKey
           cl == httpclientNew(endpoint, apiKey)
       IN /\ provider' = IF ~read THEN [provider EXCEPT !.ResourceData = NoClient]
                         ELSE [endpoint |-> endpoint, apiKey |-> apiKey,
                               ResourceData |-> cl]
          /\ last' = [op |-> "Provider.Configure", arg |-> config, read |-> read,
                      diags |-> IF ~read
                                THEN <<ErrorDiag("Value Conversion Error", <<>>)>>
                                ELSE IF ~cl.valid
                                THEN <<ErrorDiag("Failed to create Kaiak client", <<>>)>>
                                ELSE <<>>,
                      calls |-> <<>>]
          /\ UNCHANGED <<meta, client, infos, built, remote, tfSchema, tfState, pc,
                         environ>>

\* A Resources that discovers with the environment's values only
ResourcesFromEnv ==
    \E listed \in BOOLEAN :
       LET cl == httpclientNew(resolveEndpoint, resolveApiKey)
       IN /\ cl.valid \/ ~listed
          /\ last' = [op |-> "Resources", arg |-> <<>>, diags |-> <<>>,
                      calls |-> <<>>, endpoint |-> resolveEndpoint,
                      apiKey |-> resolveApiKey,
                      cl |-> cl, ret |-> IF cl.valid /\ listed THEN <<meta>> ELSE <<>>]
          /\ UNCHANGED <<meta, client, infos, built, remote, tfSchema, tfState, pc,
                         provider, environ>>

\* kaiakProvider.Resources
Resources ==
    \E listed \in BOOLEAN :
       LET endpoint == IF provider.endpoint = "" THEN resolveEndpoint
                       ELSE provider.endpoint
           apiKey == IF provider.apiKey = "" THEN resolveApiKey ELSE provider.apiKey
           cl == httpclientNew(endpoint, apiKey)
       IN /\ cl.valid \/ ~listed
          /\ last' = [op |-> "Resources", arg |-> <<>>, diags |-> <<>>,
                      calls |-> <<>>, endpoint |-> endpoint, apiKey |-> apiKey,
                      cl |-> cl, ret |-> IF cl.valid /\ listed THEN <<meta>> ELSE <<>>]
          /\ UNCHANGED <<meta, client, infos, built, remote, tfSchema, tfState, pc,
                         provider, environ>>

\* The state of a new instance: empty, or its read-only attributes filled in
InitialStates ==
    LET ro == {i \in DOMAIN meta.Attributes : meta.Attributes[i].ReadOnly}
        at(n) == meta.Attributes[CHOOSE i \in ro : meta.Attributes[i].Name = n]
    IN { <<>>, [n \in {meta.Attributes[i].Name : i \in ro} |-> serverValue(at(n).Type)] }

\* The state of an instance that reports every attribute
FullState ==
    LET at(n) == meta.Attributes[CHOOSE i \in DOMAIN meta.Attributes :
                                     meta.Attributes[i].Name = n]
    IN [n \in {meta.Attributes[i].Name : i \in DOMAIN meta.Attributes} |->
           serverValue(at(n).Type)]

WritableNames ==
    {meta.Attributes[i].Name :
        i \in {j \in DOMAIN meta.Attributes : ~meta.Attributes[j].ReadOnly}}

\* The functions that map every d of D to a member of V(d)
RECURSIVE choices(_, _)
choices(D, V) ==
    IF D = {} THEN {<<>>}
    ELSE LET d == CHOOSE x \in D : TRUE
         IN {(d :> v) @@ r : v \in V[d], r \in choices(D \ {d}, V)}

\* The values a plan may hold for a top-level leaf: a required one is known,
\* a computed-only one unknown, an optional one known, unknown or null
leafPlans(a) ==
    LET type == attrTypeOf(a) IN
    IF a.Required THEN {plannedValue(type)}
    ELSE IF ~a.Optional THEN {TFUnknown(type)}
    ELSE {plannedValue(type), TFUnknown(type), TFNull(type)}

\* The values a plan may hold for the member of a block that is set
memberPlans(a) ==
    LET type == attrTypeOf(a) IN
    IF a.Required THEN {plannedValue(type)}
    ELSE IF ~a.Optional THEN {TFUnknown(type)}
    ELSE {plannedValue(type), TFNull(type)}

attrPlans(a) ==
    IF a.kind # "SingleNested" THEN leafPlans(a)
    ELSE LET type == attrTypeOf(a)
             members == choices(DOMAIN a.Attributes,
                            [f \in DOMAIN a.Attributes |-> memberPlans(a.Attributes[f])])
         IN {TFValue(type, "known", FALSE, 0, <<>>, m) : m \in members}
            \cup (IF a.Required THEN {} ELSE {TFUnknown(type)})

\* The plans terraform may hand to Create and Update
Plans ==
    LET sch == tfSchema
        of == [f \in DOMAIN sch.Attributes |-> attrPlans(sch.Attributes[f])]
    IN {[isNull |-> FALSE, vals |-> v] : v \in choices(DOMAIN sch.Attributes, of)}

\* The server's answers to the n requests a handler may make; once the
\* first request has failed no handler makes another
Answers(n) == {ok \in [1..n -> BOOLEAN] : ~ok[1] => \A i \in 1..n : ~ok[i]}

-----------------------------------------------------------------------------
(* Specification *)

NoBuild == [called |-> FALSE, schema |-> EmptySchema, infos |-> NilSlice, diags |-> <<>>]
NoOp == [op |-> "none", arg |-> <<>>, diags |-> <<>>, calls |-> <<>>]

\* The calls that may be in flight on one controller, none of them started
Callers == 1..MaxCallers
Idle == [at |-> "idle", kind |-> "none", local |-> NilSlice, failed |-> FALSE]
NoCalls == [p \in Callers |-> Idle]

Init ==
    /\ meta \in [Name : {ResourceName}, Attributes : ControllerAttributes]
    /\ client = FALSE
    /\ infos = NilSlice
    /\ built = NoBuild
    /\ remote \in {<<>>, (ResourceName \o <<DOT, "docs">>) :> FullState}
    /\ tfSchema = buildResourceSchema(meta.Name, meta.Attributes).schema
    /\ tfState = NullState
    /\ last = NoOp
    /\ pc = NoCalls
    /\ provider = NewProvider
    /\ environ = Unset

\* A handler returned r
Returned(op, arg, r) ==
    /\ tfState' = r.state
    /\ remote' = r.remote
    /\ infos' = r.infos
    /\ last' = [op |-> op, arg |-> arg, diags |-> r.diags, calls |-> r.calls]
    /\ UNCHANGED <<meta, client, built, tfSchema, pc, provider, environ>>

\* What the framework may hand to Configure as req.ProviderData: nothing
\* (the provider is not configured yet), the provider's client, or a value
\* of another type
ProviderData == {"nil", "client", "other"}

\* dynamicResource.Configure
Configure ==
    /\ \E data \in ProviderData :
          /\ client' = IF data = "client" THEN TRUE ELSE client
          /\ last' = [op |-> "Configure", arg |-> data,
                      diags |-> IF data = "other"
                                THEN <<ErrorDiag("Unexpected provider data type", <<>>)>>
                                ELSE <<>>,
                      calls |-> <<>>]
    /\ UNCHANGED <<meta, infos, built, remote, tfSchema, tfState, pc, provider, environ>>

\* dynamicResource.Schema
Schema ==
    LET b == buildResourceSchema(meta.Name, meta.Attributes) IN
    /\ built' = [called |-> TRUE, schema |-> b.schema, infos |-> b.infos,
                 diags |-> b.diags]
    /\ infos' = IF HasError(b.diags) THEN infos ELSE b.infos
    /\ last' = [op |-> "Schema", arg |-> <<>>, diags |-> b.diags, calls |-> <<>>]
    /\ UNCHANGED <<meta, client, remote, tfSchema, tfState, pc, provider, environ>>

\* The inputs a handler never looks at are not enumerated: a plan is read
\* only once the instance exists, and the server chooses what to keep only
\* when it serves an update.
DoCreate ==
    /\ tfState.isNull
    /\ \E label \in Labels, ok \in Answers(3) :
       \E plan \in IF client /\ ok[1] THEN Plans ELSE {NullState},
          init \in IF client /\ ok[1] THEN InitialStates ELSE {<<>>},
          echo \in IF client /\ ok[1] /\ ok[2] THEN SUBSET WritableNames ELSE {{}} :
          Returned("Create", [label |-> label, plan |-> plan],
                   Create(plan, label, init, echo, ok))

DoRead ==
    /\ ~tfState.isNull
    /\ \E ok \in Answers(1) : Returned("Read", <<>>, Read(ok))

DoUpdate ==
    /\ ~tfState.isNull
    /\ \E ok \in Answers(2) :
       \E plan \in IF client THEN Plans ELSE {NullState},
          echo \in IF client /\ ok[1] THEN SUBSET WritableNames ELSE {{}} :
          Returned("Update", [plan |-> plan], Update(plan, echo, ok))

DoDelete ==
    /\ ~tfState.isNull
    /\ \E ok \in Answers(1) : Returned("Delete", <<>>, Delete(ok))

DoImport ==
    /\ tfState.isNull
    /\ \E id \in ImportIDs : Returned("ImportState", id, ImportState(id))

Next ==
    \/ Configure
    \/ Schema
    \/ DoCreate
    \/ DoRead
    \/ DoUpdate
    \/ DoDelete
    \/ DoImport

Spec == Init /\ [][Next]_vars

\* The translator alone: Schema() on a controller of any descriptor list
InitSchema ==
    /\ meta \in [Name : {ResourceName}, Attributes : DescriptorLists]
    /\ client = FALSE
    /\ infos = NilSlice
    /\ built = NoBuild
    /\ remote = <<>>
    /\ tfSchema = buildResourceSchema(meta.Name, meta.Attributes).schema
    /\ tfState = NullState
    /\ last = NoOp
    /\ pc = NoCalls
    /\ provider = NewProvider
    /\ environ = Unset

SpecSchema == InitSchema /\ [][Schema]_vars

\* writeState alone: one fetch of an instance in any state S, reconciled
\* with any fallback F into an empty record
ReconcileAttributes ==
    <<Descriptor(<<"a">>, STRING_T, FALSE, FALSE),
      Descriptor(<<"b">>, STRING_T, FALSE, FALSE),
      Descriptor(<<"r">>, STRING_T, FALSE, TRUE),
      Descriptor(<<"tls", DOT, "cert">>, STRING_T, FALSE, FALSE),
      Descriptor(<<"tls", DOT, "expiry">>, STRING_T, FALSE, TRUE)>>

ReconcileNames == {ReconcileAttributes[i].Name : i \in DOMAIN ReconcileAttributes}

\* The states with value v for the keys of some names
StatesOf(names, v) == {[n \in K |-> v] : K \in SUBSET names}

InitReconcile ==
    /\ meta = [Name |-> ResourceName, Attributes |-> ReconcileAttributes]
    /\ client = TRUE
    /\ infos = NilSlice
    /\ built = NoBuild
    /\ remote \in {(ResourceName \o <<DOT, "docs">>) :> S :
                     S \in StatesOf(ReconcileNames, DString(<<"s1">>))}
    /\ tfSchema = buildResourceSchema(meta.Name, meta.Attributes).schema
    /\ tfState = NullState
    /\ last = NoOp
    /\ pc = NoCalls
    /\ provider = NewProvider
    /\ environ = Unset

Reconcile ==
    /\ tfState.isNull
    /\ \E name \in DOMAIN remote,
          F \in {NilAttrs} \cup {Attrs(m) : m \in StatesOf(ReconcileNames, DString(<<"v1">>))} :
          Returned("writeState", [name |-> name, F |-> F],
                   writeState(name, NullState, <<>>, <<>>, F, remote, infos, TRUE))

SpecReconcile == InitReconcile /\ [][Reconcile]_vars

\* Concurrent calls on one controller.  Neither getInfos nor Schema takes a
\* lock, so the reads and writes of r.infos of different calls interleave;
\* a read or a write takes time, from the step that starts it to the step
\* that ends it.  A call is a Schema call or the getInfos call of a CRUD
\* handler.

\* A slice header read while it was being written: the new array with the
\* old length
Torn == [isNil |-> FALSE, items |-> <<>>]

\* What a read of r.infos by p may return: the field, or, when another call
\* is writing it, also the value being written or a torn header
readInfos(p) ==
    LET writers == {q \in Callers \ {p} : pc[q].at = "storing"} IN
    IF writers = {} THEN {infos}
    ELSE {infos, Torn} \cup {pc[q].local : q \in writers}

Moved(p, to) ==
    /\ pc' = [pc EXCEPT ![p] = to]
    /\ UNCHANGED <<meta, client, built, remote, tfSchema, tfState, last,
                   provider, environ>>

\* Schema() is called: it starts to build (line 78)
CallSchema(p) ==
    /\ pc[p].at = "idle"
    /\ Moved(p, [pc[p] EXCEPT !.at = "building", !.kind = "Schema"])
    /\ UNCHANGED infos

\* getInfos() is called: it starts to read r.infos (line 44)
CallGetInfos(p) ==
    /\ pc[p].at = "idle"
    /\ Moved(p, [pc[p] EXCEPT !.at = "checking", !.kind = "getInfos"])
    /\ UNCHANGED infos

\* The test `r.infos == nil` is done
Checked(p) ==
    /\ pc[p].at = "checking"
    /\ \E v \in readInfos(p) :
          Moved(p, [pc[p] EXCEPT !.at = IF v.isNil THEN "building" ELSE "returning"])
    /\ UNCHANGED infos

\* buildResourceSchema has returned: Schema gives up on an error, and
\* otherwise both start to write r.infos (lines 46 and 83)
Built(p) ==
    /\ pc[p].at = "building"
    /\ LET b == buildResourceSchema(meta.Name, meta.Attributes) IN
       Moved(p, [pc[p] EXCEPT
                  !.at = IF pc[p].kind = "Schema" /\ HasError(b.diags)
                         THEN "done" ELSE "storing",
                  !.local = b.infos,
                  !.failed = HasError(b.diags)])
    /\ UNCHANGED infos

\* The write of r.infos is done
Stored(p) ==
    /\ pc[p].at = "storing"
    /\ infos' = pc[p].local
    /\ Moved(p, [pc[p] EXCEPT
                   !.at = IF pc[p].kind = "Schema" THEN "done" ELSE "returning"])

\* `return r.infos` (line 48) has read the field
ReturnedInfos(p) ==
    /\ pc[p].at = "returning"
    /\ \E v \in readInfos(p) :
          Moved(p, [pc[p] EXCEPT !.at = "done", !.local = v])
    /\ UNCHANGED infos

NextConcurrent ==
    \E p \in Callers :
        \/ CallSchema(p)
        \/ CallGetInfos(p)
        \/ Checked(p)
        \/ Built(p)
        \/ Stored(p)
        \/ ReturnedInfos(p)

\* Resource types whose translation fails: a reserved name, a collision
FailingAttributes ==
    { <<Descriptor(<<"name">>, STRING_T, FALSE, FALSE)>>,
      <<Descriptor(<<"listen">>, STRING_T, FALSE, FALSE),
        Descriptor(<<"id">>, STRING_T, FALSE, TRUE)>>,
      <<Descriptor(<<"tls", DOT, "cert", "_", "key">>, STRING_T, FALSE, FALSE),
        Descriptor(<<"tls", DOT, "cert", DOT, "key">>, STRING_T, FALSE, FALSE)>> }

InitConcurrent ==
    /\ meta \in [Name : {ResourceName},
                  Attributes : ControllerAttributes \cup FailingAttributes]
    /\ client = FALSE
    /\ infos = NilSlice
    /\ built = NoBuild
    /\ remote = <<>>
    /\ tfSchema = buildResourceSchema(meta.Name, meta.Attributes).schema
    /\ tfState = NullState
    /\ last = NoOp
    /\ pc = NoCalls
    /\ provider = NewProvider
    /\ environ = Unset

SpecConcurrent == InitConcurrent /\ [][NextConcurrent]_vars

\* The handlers on a controller whose translation fails.  Schema() leaves
\* resp.Schema unset, so the record is null or the one value of the empty
\* schema.
InitFailClosed ==
    /\ meta \in [Name : {ResourceName}, Attributes : FailingAttributes]
    /\ client = FALSE
    /\ infos = NilSlice
    /\ built = NoBuild
    /\ remote \in {<<>>, (ResourceName \o <<DOT, "docs">>) :> <<>>}
    /\ tfSchema = buildResourceSchema(meta.Name, meta.Attributes).schema
    /\ tfState \in {NullState, [isNull |-> FALSE, vals |-> <<>>]}
    /\ last = NoOp
    /\ pc = NoCalls
    /\ provider = NewProvider
    /\ environ = Unset

SpecFailClosed == InitFailClosed /\ [][Next]_vars

\* The type tags of the Kaiak server: the scalars, the tags translated as
\* strings, lists and maps of them, nested ones, and a map tag cut short
TypeTags ==
    { <<"bool">>, <<"int">>, <<"uint">>, <<"float">>, <<"string">>, <<"time">>,
      <<"duration">>, <<"ref">>,
      <<"[", "]", "string">>, <<"[", "]", "int">>, <<"[", "]", "[", "]", "string">>,
      <<"map", "[", "string", "]", "int">>, <<"map", "[", "string", "]", "string">>,
      <<"map", "[", "string", "]", "[", "]", "string">>, <<"map", "[", "string">> }

\* The translator on one descriptor of any tag and flags, top-level or in a
\* block
InitLeaf ==
    /\ meta \in [Name : {ResourceName},
                  Attributes : { <<Descriptor(n, t, rq, ro)>> :
                                    n \in {<<"x">>, <<"tls", DOT, "cert">>},
                                    t \in TypeTags, rq \in BOOLEAN, ro \in BOOLEAN }]
    /\ client = FALSE
    /\ infos = NilSlice
    /\ built = NoBuild
    /\ remote = <<>>
    /\ tfSchema = buildResourceSchema(meta.Name, meta.Attributes).schema
    /\ tfState = NullState
    /\ last = NoOp
    /\ pc = NoCalls
    /\ provider = NewProvider
    /\ environ = Unset

SpecLeaf == InitLeaf /\ [][Schema]_vars

\* The values a server may send for an attribute: nil, the scalars of JSON
\* and of Go, timestamps, and slices and maps of up to MaxElems elements,
\* one level nested
Values ==
    LET Timestamps ==
            { <<"2024-01-01T00:00:00", "Z">>, <<"2024-01-01T00:00:00", ".5", "Z">>,
              <<"2024-01-01T00:00:00", "+00:00">>, <<"2024-01-01T00:00:00", "+01:00">> }
        ScalarValues ==
            {DBool(TRUE), DFloat64(1), DInt(2), DString(<<"a">>)}
                \cup {DString(ts) : ts \in Timestamps}
        ElemValues ==
            {DFloat64(1), DString(<<"a">>), DString(<<"2024-01-01T00:00:00", "Z">>)}
        mapsOf(E) == UNION {[K -> E] : K \in SUBSET Keys}
        FlatValues ==
            {DSlice(q) : q \in SeqsUpTo(ElemValues, MaxElems)}
                \cup {DMap(m) : m \in mapsOf(ElemValues)}
        NestedElems == {DSlice(<<DString(<<"a">>)>>), DMap(Key(1) :> DString(<<"a">>))}
        NestedValues ==
            {DSlice(q) : q \in SeqsUpTo(NestedElems, MaxElems) \ {<<>>}}
                \cup {DMap(m) : m \in mapsOf(NestedElems) \ {<<>>}}
    IN {DNil} \cup ScalarValues \cup FlatValues \cup NestedValues

\* The encoder of a decoded value of tag t: tfListToKaiak for a list tag,
\* tfMapToKaiak for a map tag that names its value type, tfElemToGo otherwise
tfToKaiak(v, t) ==
    CASE HasPrefix(t, LIST) -> tfListToKaiak(v, From(t, 2))
      [] HasPrefix(t, MAPP) /\ mapTagOk(t) -> tfMapToKaiak(v, From(t, IndexClose(t)))
      [] OTHER -> tfElemToGo(v, t)

\* The converters on one attribute of any tag
InitValues ==
    /\ meta \in [Name : {ResourceName},
                  Attributes : { <<Descriptor(<<"x">>, t, FALSE, FALSE)>> : t \in TypeTags }]
    /\ client = FALSE
    /\ infos = NilSlice
    /\ built = NoBuild
    /\ remote = <<>>
    /\ tfSchema = buildResourceSchema(meta.Name, meta.Attributes).schema
    /\ tfState = NullState
    /\ last = NoOp
    /\ pc = NoCalls
    /\ provider = NewProvider
    /\ environ = Unset

\* kaiakValueToTF applied to a value of the server
Decode ==
    /\ \E v \in Values :
          last' = [op |-> "kaiakValueToTF", arg |-> v, diags |-> <<>>, calls |-> <<>>,
                   ret |-> kaiakValueToTF(v, meta.Attributes[1].Type)]
    /\ UNCHANGED <<meta, client, infos, built, remote, tfSchema, tfState, pc,
                 provider, environ>>

\* The encoder applied to what kaiakValueToTF returned
Encode ==
    /\ last.op = "kaiakValueToTF"
    /\ last' = [op |-> "tfToKaiak", arg |-> last.arg, diags |-> <<>>, calls |-> <<>>,
                ret |-> tfToKaiak(last.ret, meta.Attributes[1].Type)]
    /\ UNCHANGED <<meta, client, infos, built, remote, tfSchema, tfState, pc,
                 provider, environ>>

NextValues == Decode \/ Encode

SpecValues == InitValues /\ [][NextValues]_vars

\* The translator on resource types with blocks of several members: two
\* blocks and a top-level leaf, with every combination of flags
BlockDescriptors ==
    { Descriptor(n, STRING_T, rq, ro) :
        n \in {<<"tls", DOT, "cert">>, <<"tls", DOT, "key">>, <<"db", DOT, "url">>,
               <<"port">>},
        rq \in BOOLEAN, ro \in BOOLEAN }

InitBlocks ==
    /\ meta \in [Name : {ResourceName},
                  Attributes : SeqsUpTo(BlockDescriptors, MaxMembers)]
    /\ client = FALSE
    /\ infos = NilSlice
    /\ built = NoBuild
    /\ remote = <<>>
    /\ tfSchema = buildResourceSchema(meta.Name, meta.Attributes).schema
    /\ tfState = NullState
    /\ last = NoOp
    /\ pc = NoCalls
    /\ provider = NewProvider
    /\ environ = Unset

SpecBlocks == InitBlocks /\ [][Schema]_vars

-----------------------------------------------------------------------------
(* Schema translator: properties, checked under SpecSchema *)

\* Descriptors i and j of the resource type derive the same (block, field)
samePair(i, j) ==
    /\ newAttrInfo(meta.Attributes[i]).tfBlock = newAttrInfo(meta.Attributes[j]).tfBlock
    /\ newAttrInfo(meta.Attributes[i]).tfField = newAttrInfo(meta.Attributes[j]).tfField

\* Descriptor i is top-level and its field is `name` or `id`
reservedTop(i) ==
    /\ newAttrInfo(meta.Attributes[i]).tfBlock = <<>>
    /\ newAttrInfo(meta.Attributes[i]).tfField \in {<<"name">>, <<"id">>}

hasDiag(diags, d) == \E k \in DOMAIN diags : diags[k] = d

\* The translation failed as a whole: no schema, no table
failedWhole == built.schema = [Attributes |-> <<>>] /\ built.infos.isNil

\* C1 as stated: whenever two descriptors derive the same (block, field)
\* pair, translation returns a naming-collision error, an empty schema and
\* no AttrInfo table.
C1_CollisionAlwaysReported ==
    (built.called /\ \E i, j \in DOMAIN meta.Attributes : i < j /\ samePair(i, j))
        => /\ \E k \in DOMAIN built.diags :
                  /\ built.diags[k].severity = "error"
                  /\ built.diags[k].summary = "Attribute naming collision"
           /\ failedWhole

\* C1 (amended): whenever two descriptors derive the same (block, field)
\* pair, translation fails with an error about the later descriptor, an
\* empty schema and no AttrInfo table; the error is a naming collision
\* unless the pair is top-level `name` or `id`, for which it is the
\* reserved-name error.
C1_SamePairFails ==
    built.called =>
        \A i, j \in DOMAIN meta.Attributes :
            (i < j /\ samePair(i, j)) =>
                /\ IF reservedTop(j)
                   THEN hasDiag(built.diags,
                            ErrorDiag("Reserved attribute name", meta.Attributes[j].Name))
                   ELSE hasDiag(built.diags,
                            ErrorDiag("Attribute naming collision", meta.Attributes[j].Name))
                /\ failedWhole

\* Schema() has run on "tls.cert_key" followed by "tls.cert.key"
C1_Witness ==
    /\ built.called
    /\ Len(meta.Attributes) = 2
    /\ meta.Attributes[1].Name = <<"tls", DOT, "cert", "_", "key">>
    /\ meta.Attributes[2].Name = <<"tls", DOT, "cert", DOT, "key">>
    /\ samePair(1, 2)
    /\ hasDiag(built.diags,
               ErrorDiag("Attribute naming collision", meta.Attributes[2].Name))

\* C2: every top-level descriptor whose field is `name` or `id` is rejected
\* with a reserved-name error, and a translation with such a descriptor
\* returns an empty schema and no AttrInfo table whatever the other
\* descriptors are.
C2_ReservedRejected ==
    built.called =>
        \A i \in DOMAIN meta.Attributes :
            reservedTop(i) =>
                /\ hasDiag(built.diags,
                       ErrorDiag("Reserved attribute name", meta.Attributes[i].Name))
                /\ failedWhole

\* Schema() has run on a valid descriptor "x" and a reserved one
C2_Witness ==
    /\ built.called
    /\ Len(meta.Attributes) = 2
    /\ meta.Attributes[1].Name = <<"x">>
    /\ meta.Attributes[2].Name = <<"id">>
    /\ reservedTop(2)
    /\ failedWhole

\* C3 as stated: every schema of a successful translation holds `name` as a
\* required string with replace-on-change and `id` as a computed string
\* with use-state-for-unknown.
C3_FixedAttributesPresent ==
    (built.called /\ ~HasError(built.diags)) =>
        /\ <<"name">> \in DOMAIN built.schema.Attributes
        /\ <<"id">> \in DOMAIN built.schema.Attributes
        /\ built.schema.Attributes[<<"name">>].kind = "String"
        /\ built.schema.Attributes[<<"name">>].Required
        /\ built.schema.Attributes[<<"name">>].PlanModifiers = {"RequiresReplace"}
        /\ built.schema.Attributes[<<"id">>].kind = "String"
        /\ built.schema.Attributes[<<"id">>].Computed
        /\ built.schema.Attributes[<<"id">>].PlanModifiers = {"UseStateForUnknown"}

-----------------------------------------------------------------------------
(* Reconciliation: properties, checked under SpecReconcile *)

\* The value the record holds for descriptor a: its top-level attribute, or
\* its member of the block when the block is set
recordValue(st, a) ==
    LET info == newAttrInfo(a) IN
    IF info.tfBlock = <<>> THEN st.vals[info.tfField]
    ELSE IF st.vals[info.tfBlock].st = "known"
    THEN st.vals[info.tfBlock].attrs[info.tfField]
    ELSE TFNull(<<"String">>)

\* C4: the state merged from the fetched state S and the fallback F holds
\* S's value for every key of S, F's value for every writable attribute that
\* S lacks and F has, and no value for a read-only attribute that S lacks,
\* which the record then holds as a typed null.
C4_Reconciliation ==
    last.op = "writeState" =>
        LET S == remote[last.arg.name]
            F == last.arg.F
            merged == mergeState(S, F, getInfos(infos))
        IN \A i \in DOMAIN meta.Attributes :
               LET a == meta.Attributes[i]
                   k == a.Name
               IN /\ k \in DOMAIN S =>
                         /\ k \in DOMAIN merged /\ merged[k] = S[k]
                         /\ recordValue(tfState, a) = StringValue(S[k].s)
                  /\ (k \notin DOMAIN S /\ ~a.ReadOnly /\ ~F.isNil /\ k \in DOMAIN F.m) =>
                         /\ k \in DOMAIN merged /\ merged[k] = F.m[k]
                         /\ recordValue(tfState, a) = StringValue(F.m[k].s)
                  /\ (k \notin DOMAIN S /\ a.ReadOnly) =>
                         /\ k \notin DOMAIN merged
                         /\ recordValue(tfState, a) = TFNull(<<"String">>)

\* The case of the specification's example: the server reports `a` and not
\* `b`, the fallback holds another value for `a`, one for `b` and one for the
\* read-only `r`
C4_Witness ==
    /\ last.op = "writeState"
    /\ ~last.arg.F.isNil
    /\ DOMAIN remote[last.arg.name] = {<<"a">>}
    /\ {<<"a">>, <<"b">>, <<"r">>} \subseteq DOMAIN last.arg.F.m
    /\ last.arg.F.m[<<"a">>] # remote[last.arg.name][<<"a">>]
    /\ tfState.vals[<<"a">>] = StringValue(<<"s1">>)
    /\ tfState.vals[<<"b">>] = StringValue(<<"v1">>)
    /\ tfState.vals[<<"r">>] = TFNull(<<"String">>)

-----------------------------------------------------------------------------
(* Instance controller: properties, checked under Spec *)

\* C5 as stated: a Read that follows a successful Create or Update, the
\* server's state unchanged in between, writes the record that Create or
\* Update wrote.
C5_NoDriftAfterApply ==
    [][(/\ last.op \in {"Create", "Update"}
        /\ ~HasError(last.diags)
        /\ last'.op = "Read"
        /\ ~HasError(last'.diags)
        /\ remote' = remote)
           => tfState' = tfState]_vars

\* The calls of the last handler with operation op
callsOf(op) == {i \in DOMAIN last.calls : last.calls[i].op = op}

\* C6: when Create's extraction or its apply-now update fails after the
\* instance was created, Create makes exactly one destroy call, non-forced
\* and for that instance, reports the primary failure as an error, adds the
\* "Cleanup failed" warning naming the instance exactly when the destroy
\* fails, and writes no record.
C6_CreateCompensation ==
    (last.op = "Create" /\ \E i \in callsOf("create") : last.calls[i].ok) =>
        LET name == fullName(last.arg.label)
            ext == extractAttrs(tfSchema, last.arg.plan, getInfos(infos))
            extractionFailed == HasError(ext.diags)
            applyFailed == \E i \in callsOf("update") : ~last.calls[i].ok
            warned == \E k \in DOMAIN last.diags :
                          /\ last.diags[k].severity = "warning"
                          /\ last.diags[k].summary = "Cleanup failed"
                          /\ last.diags[k].about = name
        IN (extractionFailed \/ applyFailed) =>
               /\ Cardinality(callsOf("destroy")) = 1
               /\ \A i \in callsOf("destroy") :
                      /\ ~last.calls[i].force
                      /\ last.calls[i].name = name
                      /\ warned <=> ~last.calls[i].ok
               /\ extractionFailed =>
                      /\ \A k \in DOMAIN ext.diags : hasDiag(last.diags, ext.diags[k])
                      /\ callsOf("update") = {}
               /\ applyFailed =>
                      hasDiag(last.diags, ErrorDiag("Failed to apply attributes", name))
               /\ HasError(last.diags)
               /\ callsOf("get") = {}
               /\ tfState.isNull

\* The apply-now update failed and the destroy that followed failed too
C6_Witness ==
    /\ last.op = "Create"
    /\ Len(last.calls) = 3
    /\ last.calls[1].op = "create" /\ last.calls[1].ok
    /\ last.calls[2].op = "update" /\ ~last.calls[2].ok
    /\ last.calls[3].op = "destroy" /\ ~last.calls[3].ok
    /\ hasDiag(last.diags, WarningDiag("Cleanup failed", fullName(last.arg.label)))
    /\ tfState.isNull

\* Extraction failed and the destroy that followed succeeded
C6_ExtractionFailed ==
    /\ last.op = "Create"
    /\ Len(last.calls) = 2
    /\ last.calls[1].op = "create" /\ last.calls[1].ok
    /\ last.calls[2].op = "destroy" /\ last.calls[2].ok
    /\ HasError(last.diags)
    /\ tfState.isNull

\* An import ID of the form "<type>.<label>", both segments non-empty: its
\* first dot is neither its first nor its last token
wellFormed(id) ==
    \E i \in 2..(Len(id) - 1) : id[i] = DOT /\ \A j \in 1..(i - 1) : id[j] # DOT

\* The type segment of a well-formed ID, and its label segment
typeOf(id) ==
    SubSeq(id, 1, (CHOOSE i \in DOMAIN id : id[i] = DOT /\ \A j \in 1..(i - 1) : id[j] # DOT) - 1)
labelOf(id) ==
    SubSeq(id, (CHOOSE i \in DOMAIN id : id[i] = DOT /\ \A j \in 1..(i - 1) : id[j] # DOT) + 1,
           Len(id))

\* C7: ImportState answers an ID that is not "<type>.<label>" with the
\* format error, and a well-formed ID of another resource type with the
\* type-mismatch error; in both cases the record stays unset.
C7_ImportRejects ==
    last.op = "ImportState" =>
        /\ ~wellFormed(last.arg) =>
               /\ hasDiag(last.diags, ErrorDiag("Invalid import ID", last.arg))
               /\ tfState.isNull
        /\ (wellFormed(last.arg) /\ typeOf(last.arg) # meta.Name) =>
               /\ hasDiag(last.diags, ErrorDiag("Resource type mismatch", last.arg))
               /\ tfState.isNull

\* "httpstatic.docs" was imported into a controller bound to httpserver
C7_Witness ==
    /\ last.op = "ImportState"
    /\ last.arg = <<"httpstatic", DOT, "docs">>
    /\ meta.Name = <<"httpserver">>
    /\ HasError(last.diags)
    /\ tfState.isNull

\* C8: a successful ImportState leaves a record whose `id` is the import ID,
\* whose `name` is what follows the ID's first dot and whose every other
\* attribute is null, and has made no call to the server.
C8_ImportSeedsIdAndName ==
    (last.op = "ImportState" /\ ~HasError(last.diags)) =>
        /\ ~tfState.isNull
        /\ tfState.vals[<<"id">>] = StringValue(last.arg)
        /\ tfState.vals[<<"name">>] = StringValue(labelOf(last.arg))
        /\ \A f \in DOMAIN tfState.vals \ {<<"id">>, <<"name">>} :
               tfState.vals[f].st = "null"
        /\ last.calls = <<>>

\* "httpserver.a.b" was imported while the server holds an instance whose
\* attributes the record could have been filled with
C8_Witness ==
    /\ last.op = "ImportState"
    /\ ~HasError(last.diags)
    /\ last.arg = <<"httpserver", DOT, "a", DOT, "b">>
    /\ tfState.vals[<<"name">>] = StringValue(<<"a", DOT, "b">>)
    /\ <<"listen">> \in DOMAIN tfState.vals
    /\ remote # <<>>

\* C9 as stated: the record a successful Create, Import, Read or Update
\* leaves holds a label in `name` and resource_type + "." + name in `id`.
C9_IdIsTypeDotName ==
    (/\ last.op \in {"Create", "ImportState", "Read", "Update"}
     /\ ~HasError(last.diags)
     /\ ~tfState.isNull)
        => /\ tfState.vals[<<"name">>].st = "known"
           /\ tfState.vals[<<"id">>]
                  = StringValue(meta.Name \o <<DOT>> \o tfState.vals[<<"name">>].s)

\* C10: Delete makes no call but a non-forced destroy for the record's id,
\* and makes that call once whenever the client is configured and the id can
\* be read; the record is removed exactly when the destroy succeeded, and
\* otherwise Delete reports an error and the record is what it was.
C10_DeleteDestroys ==
    [][last'.op = "Delete" =>
        LET destroyed == \E i \in DOMAIN last'.calls : last'.calls[i].ok IN
        /\ Len(last'.calls) <= 1
        /\ \A i \in DOMAIN last'.calls :
               /\ last'.calls[i].op = "destroy"
               /\ ~last'.calls[i].force
               /\ tfState.vals[<<"id">>].type = <<"String">>
               /\ last'.calls[i].name = tfState.vals[<<"id">>].s
        /\ (client /\ tfState.vals[<<"id">>].type = <<"String">>) => Len(last'.calls) = 1
        /\ tfState'.isNull <=> destroyed
        /\ ~destroyed => (HasError(last'.diags) /\ tfState' = tfState)]_vars

\* The destroy of Delete failed: the error is reported, the record is kept
C10_Witness ==
    /\ last.op = "Delete"
    /\ Len(last.calls) = 1
    /\ last.calls[1].op = "destroy" /\ ~last.calls[1].ok
    /\ hasDiag(last.diags,
               ErrorDiag("Failed to destroy resource instance", last.calls[1].name))
    /\ ~tfState.isNull

\* The destroy of Delete succeeded: the record is gone
C10_Removed ==
    /\ last.op = "Delete"
    /\ Len(last.calls) = 1
    /\ last.calls[1].op = "destroy" /\ last.calls[1].ok
    /\ tfState.isNull

\* C11: a Create, Read, Update or Delete one of whose remote calls failed
\* ends with an error, and the record after it is the record before it.
C11_RemoteFailureIsFatal ==
    [][(/\ last'.op \in {"Create", "Read", "Update", "Delete"}
        /\ \E i \in DOMAIN last'.calls : ~last'.calls[i].ok)
           => (HasError(last'.diags) /\ tfState' = tfState)]_vars

\* Update's request was served and the fetch that follows it failed: the
\* record is still there, with an error
C11_Witness ==
    /\ last.op = "Update"
    /\ Len(last.calls) = 2
    /\ last.calls[1].op = "update" /\ last.calls[1].ok
    /\ last.calls[2].op = "get" /\ ~last.calls[2].ok
    /\ hasDiag(last.diags,
               ErrorDiag("Failed to read resource instance", last.calls[2].name))
    /\ ~tfState.isNull

\* C12: without a client Create, Read, Update and Delete report "Resource
\* not configured" and nothing else, call the server not at all and leave
\* the record and the server as they were; with a client none of them
\* reports it.
C12_NotConfiguredGuard ==
    [][last'.op \in {"Create", "Read", "Update", "Delete"} =>
        IF ~client
        THEN /\ last'.diags = <<ErrorDiag("Resource not configured", <<>>)>>
             /\ last'.calls = <<>>
             /\ tfState' = tfState
             /\ remote' = remote
        ELSE ~hasDiag(last'.diags, ErrorDiag("Resource not configured", <<>>))]_vars

\* Read ran on an imported record before any client was supplied
C12_Witness ==
    /\ last.op = "Read"
    /\ ~client
    /\ last.diags = <<ErrorDiag("Resource not configured", <<>>)>>
    /\ last.calls = <<>>
    /\ ~tfState.isNull

\* Create ran with a client and reached the server
C12_Configured ==
    /\ last.op = "Create"
    /\ client
    /\ last.calls # <<>>

-----------------------------------------------------------------------------
(* The cache under concurrent calls: properties, checked under SpecConcurrent *)

\* Call p is building the table or writing the cache
deriving(p) == pc[p].at \in {"building", "storing"}

\* Call p is reading the cache
reading(p) == pc[p].at \in {"checking", "returning"}

\* C13 as stated: of the calls in flight on one controller no two build or
\* write the cache at the same time, and none reads it while another
\* writes it.
C13_CacheNeverRaced ==
    \A p, q \in Callers :
        p # q => /\ ~(deriving(p) /\ deriving(q))
                 /\ ~(pc[p].at = "storing" /\ reading(q))


\* C14 as stated: the table of a controller is derived once; no call
\* starts to build it after another call on the controller has completed.
C14_DerivedOnce ==
    [][\A p \in Callers :
          (pc[p].at # "building" /\ pc'[p].at = "building")
              => \A q \in Callers \ {p} : pc[q].at # "done"]_vars


-----------------------------------------------------------------------------
(* A resource type whose translation fails: checked under SpecFailClosed *)

\* C15 as stated: on a controller whose translation fails, Create, Read,
\* Update and Delete make no request to the server and write no record.
C15_FailClosed ==
    [][(HasError(buildResourceSchema(meta.Name, meta.Attributes).diags)
        /\ last'.op \in {"Create", "Read", "Update", "Delete"})
           => (last'.calls = <<>> /\ tfState' = tfState /\ remote' = remote)]_vars


-----------------------------------------------------------------------------
(* Leaf policy: checked under SpecLeaf *)

\* The leaf the schema holds for the one descriptor of the resource type
leafOf(sch) ==
    LET info == newAttrInfo(meta.Attributes[1]) IN
    IF info.tfBlock = <<>> THEN sch.Attributes[info.tfField]
    ELSE sch.Attributes[info.tfBlock].Attributes[info.tfField]

\* C16 as stated: a required descriptor yields a required leaf, a readOnly
\* descriptor a leaf that is computed and neither required nor optional,
\* and any other descriptor a leaf that is optional and computed, whatever
\* the flags and the tag.
C16_LeafPolicy ==
    (built.called /\ ~HasError(built.diags)) =>
        LET a == meta.Attributes[1]
            leaf == leafOf(built.schema)
        IN /\ a.Required => leaf.Required
           /\ a.ReadOnly => (leaf.Computed /\ ~leaf.Required /\ ~leaf.Optional)
           /\ (~a.Required /\ ~a.ReadOnly) =>
                  (leaf.Optional /\ leaf.Computed /\ ~leaf.Required)


-----------------------------------------------------------------------------
(* Blocks: checked under SpecBlocks *)

\* The descriptors of the resource type that are members of block b
membersOf(b) ==
    {i \in DOMAIN meta.Attributes : newAttrInfo(meta.Attributes[i]).tfBlock = b}

\* C17: in the schema of a successful translation a block is required
\* exactly when one of its member descriptors is required, is optional and
\* computed when none is, and is never both required and optional.
C17_BlockRequired ==
    (built.called /\ ~HasError(built.diags)) =>
        \A b \in DOMAIN built.schema.Attributes :
            built.schema.Attributes[b].kind = "SingleNested" =>
                LET block == built.schema.Attributes[b]
                    anyRequired == \E i \in membersOf(b) : meta.Attributes[i].Required
                IN /\ block.Required <=> anyRequired
                   /\ ~anyRequired => (block.Optional /\ block.Computed)
                   /\ ~(block.Required /\ block.Optional)

\* A block of an optional and a required member was translated, beside a
\* block with no required member
C17_Witness ==
    /\ built.called
    /\ ~HasError(built.diags)
    /\ Len(meta.Attributes) = 3
    /\ meta.Attributes[1].Name = <<"tls", DOT, "cert">> /\ ~meta.Attributes[1].Required
    /\ meta.Attributes[2].Name = <<"tls", DOT, "key">> /\ meta.Attributes[2].Required
    /\ meta.Attributes[3].Name = <<"db", DOT, "url">> /\ ~meta.Attributes[3].Required
    /\ built.schema.Attributes[<<"tls">>].Required
    /\ DOMAIN built.schema.Attributes[<<"tls">>].Attributes = {<<"cert">>, <<"key">>}
    /\ built.schema.Attributes[<<"db">>].Optional


-----------------------------------------------------------------------------
(* Value converters: checked under SpecValues *)

\* Whether the shape of dynamic value v is the one type tag t names
RECURSIVE matches(_, _)
matches(v, t) ==
    CASE t = <<"bool">> -> v.k = "bool"
      [] t \in {<<"int">>, <<"uint">>, <<"float">>} -> v.k \in {"float64", "int"}
      [] t = <<"time">> -> v.k = "string" /\ parsesRFC3339(v.s)
      [] HasPrefix(t, LIST) ->
             v.k = "slice" /\ \A i \in DOMAIN v.vals : matches(v.vals[i], From(t, 2))
      [] HasPrefix(t, MAPP) ->
             /\ v.k = "map"
             /\ mapTagOk(t)
             /\ \A k \in DOMAIN v.vals : matches(v.vals[k], From(t, IndexClose(t)))
      [] OTHER -> v.k = "string"

\* C18: for every supported tag and every value whose shape matches it,
\* encoding the decoded value gives the original value back (as the server
\* sees it, numbers being JSON numbers).
C18_RoundTrip ==
    (last.op = "tfToKaiak" /\ matches(last.arg, meta.Attributes[1].Type))
        => viaJSON(last.ret) = viaJSON(last.arg)

\* C19: decoding a non-nil value whose shape does not match the tag gives
\* the string rendering of the value, whatever the tag is.
C19_MismatchIsString ==
    (/\ last.op = "kaiakValueToTF"
     /\ last.arg.k # "nil"
     /\ ~matches(last.arg, meta.Attributes[1].Type))
        => /\ last.ret.type = <<"String">>
           /\ last.ret.st = "known"
           /\ last.ret.s = Sprint(last.arg)

\* The type of the null each tag of the model decodes nil to
NullTypes ==
    (<<"bool">> :> <<"Bool">>) @@ (<<"int">> :> <<"Int64">>) @@ (<<"uint">> :> <<"Int64">>)
    @@ (<<"float">> :> <<"Float64">>) @@ (<<"string">> :> <<"String">>)
    @@ (<<"time">> :> <<"String">>) @@ (<<"duration">> :> <<"String">>)
    @@ (<<"ref">> :> <<"String">>)
    @@ (<<"[", "]", "string">> :> <<"List", "String">>)
    @@ (<<"[", "]", "int">> :> <<"List", "Int64">>)
    @@ (<<"[", "]", "[", "]", "string">> :> <<"List", "List", "String">>)
    @@ (<<"map", "[", "string", "]", "int">> :> <<"Map", "Int64">>)
    @@ (<<"map", "[", "string", "]", "string">> :> <<"Map", "String">>)
    @@ (<<"map", "[", "string", "]", "[", "]", "string">> :> <<"Map", "List", "String">>)
    @@ (<<"map", "[", "string">> :> <<"Map", "String">>)

\* C20: decoding nil gives a null of the type the tag names: a boolean null
\* for bool, an integer null for int and uint, a float null for float, a
\* list-of-T null for []T, a map-of-T null for map[string]T and a string
\* null for every other tag.
C20_TypedNull ==
    (last.op = "kaiakValueToTF" /\ last.arg.k = "nil")
        => /\ last.ret.st = "null"
           /\ last.ret.type = NullTypes[meta.Attributes[1].Type]

\* nil was decoded under a nested list tag and gave a null list of lists
C20_Witness ==
    /\ last.op = "kaiakValueToTF"
    /\ last.arg.k = "nil"
    /\ meta.Attributes[1].Type = <<"[", "]", "[", "]", "string">>
    /\ last.ret.st = "null"
    /\ last.ret.type = <<"List", "List", "String">>


-----------------------------------------------------------------------------
(* Update, checked under Spec *)

\* C21: an Update whose extraction succeeds submits the extracted attributes
\* in one apply-now update for the id of the prior record and makes no other
\* update; it fetches the instance only if that update succeeded; and when it
\* ends without an error the record's id is the prior id and every writable
\* attribute the server's state lacks holds the submitted value.
C21_UpdateContract ==
    [][(last'.op = "Update" /\ client /\ tfState.vals[<<"id">>].type = <<"String">>) =>
        LET name == ValueString(tfState.vals[<<"id">>])
            ext == extractAttrs(tfSchema, last'.arg.plan, getInfos(infos))
            calls == last'.calls
        IN /\ HasError(ext.diags) => calls = <<>>
           /\ ~HasError(ext.diags) =>
                  /\ Len(calls) >= 1
                  /\ calls[1].op = "update" /\ calls[1].apply
                  /\ calls[1].name = name /\ calls[1].attrs = ext.state
                  /\ \A i \in 2..Len(calls) : calls[i].op = "get"
                  /\ Len(calls) <= 2
                  /\ Len(calls) = 2 <=> calls[1].ok
           /\ ~HasError(last'.diags) =>
                  /\ Len(calls) = 2 /\ calls[2].ok
                  /\ tfState'.vals[<<"id">>] = tfState.vals[<<"id">>]
                  /\ \A i \in DOMAIN meta.Attributes :
                         LET a == meta.Attributes[i] IN
                         (/\ ~a.ReadOnly
                          /\ a.Name \notin DOMAIN remote'[name]
                          /\ a.Name \in DOMAIN ext.state)
                             => recordValue(tfState', a)
                                    = kaiakValueToTF(ext.state[a.Name], a.Type)]_vars

\* An Update ended without an error: its update was served, the server kept
\* none of the submitted attributes, and the record holds a submitted value
C21_Witness ==
    /\ last.op = "Update"
    /\ ~HasError(last.diags)
    /\ Len(last.calls) = 2
    /\ last.calls[1].op = "update" /\ last.calls[1].apply /\ last.calls[1].ok
    /\ last.calls[2].op = "get" /\ last.calls[2].ok
    /\ <<"listen">> \in DOMAIN last.calls[1].attrs
    /\ <<"listen">> \notin DOMAIN remote[last.calls[1].name]
    /\ tfState.vals[<<"listen">>] = StringValue(last.calls[1].attrs[<<"listen">>].s)
    /\ tfState.vals[<<"id">>] = StringValue(last.calls[1].name)

-----------------------------------------------------------------------------
(* Endpoint and API key, checked under SpecProvider *)

InitProvider ==
    /\ meta \in [Name : {ResourceName}, Attributes : {<<>>}]
    /\ client = FALSE
    /\ infos = NilSlice
    /\ built = NoBuild
    /\ remote = <<>>
    /\ tfSchema = buildResourceSchema(meta.Name, meta.Attributes).schema
    /\ tfState = NullState
    /\ last = NoOp
    /\ pc = NoCalls
    /\ provider = NewProvider
    /\ environ \in [KAIAK_ENDPOINT : {"", "http://env:8084/api", "env endpoint"},
                     KAIAK_API_KEY : {"", "env-key"}]

NextProvider == ProviderConfigure \/ Resources

SpecProvider == InitProvider /\ [][NextProvider]_vars

\* What a configuration and the environment resolve to: the configuration's
\* value, else the environment's, else the default
resolved(config, env, default) ==
    IF config # "" THEN config ELSE IF env # "" THEN env ELSE default

\* C22: a Configure that read its configuration caches, and gives the client
\* it hands to resources, the configuration's endpoint and key when they are
\* not empty, else the environment's, else (endpoint only) the default; a
\* Resources call after such a Configure discovers with the cached endpoint
\* and key, which are those of the client handed to resources when there is
\* one, and a Resources call on a provider that has not been configured
\* discovers with the environment's values
C22_EndpointResolution ==
    [][/\ (last'.op = "Provider.Configure" /\ last'.read) =>
            /\ provider'.endpoint =
                  resolved(last'.arg.Endpoint, environ.KAIAK_ENDPOINT, DefaultEndpoint)
            /\ provider'.apiKey = resolved(last'.arg.ApiKey, environ.KAIAK_API_KEY, "")
            /\ provider'.ResourceData.valid =>
                  /\ provider'.ResourceData.endpoint = provider'.endpoint
                  /\ provider'.ResourceData.token = provider'.apiKey
            /\ provider'.ResourceData.valid <=> ~HasError(last'.diags)
       /\ (last'.op = "Resources" /\ provider.endpoint # "") =>
            /\ last'.endpoint = provider.endpoint
            /\ last'.apiKey = provider.apiKey
            /\ provider.ResourceData.valid => last'.cl = provider.ResourceData
       /\ (last'.op = "Resources" /\ provider = NewProvider) =>
            /\ last'.endpoint = resolved("", environ.KAIAK_ENDPOINT, DefaultEndpoint)
            /\ last'.apiKey = environ.KAIAK_API_KEY
      ]_vars

\* Resources ran after a Configure whose configuration and environment gave
\* different endpoints and keys, and discovered with the configuration's
C22_Witness ==
    /\ last.op = "Resources"
    /\ provider.ResourceData.valid
    /\ environ.KAIAK_ENDPOINT = "http://env:8084/api"
    /\ environ.KAIAK_API_KEY = "env-key"
    /\ last.cl = [endpoint |-> "http://config:8084/api", token |-> "config-key",
                  valid |-> TRUE]
    /\ last.ret = <<meta>>

-----------------------------------------------------------------------------
(* Create's compensation, checked under Spec *)

\* C23 as stated: a Create that ends with an error after its create-instance
\* call succeeded has destroyed the instance or has emitted the warning that
\* names it
C23_NoSilentOrphan ==
    (/\ last.op = "Create"
     /\ HasError(last.diags)
     /\ last.calls # <<>>
     /\ last.calls[1].ok)
        => \/ fullName(last.arg.label) \notin DOMAIN remote
           \/ \E k \in DOMAIN last.diags :
                 last.diags[k] = WarningDiag("Cleanup failed", fullName(last.arg.label))

-----------------------------------------------------------------------------
(* Decoded types, checked under SpecValues *)

\* C24 as stated: whatever the tag and the dynamic value, kaiakValueToTF
\* returns a value of the type kaiakTypeToAttrType gives the tag, and every
\* element of a list or map it returns has that type's element type
C24_DecodedTypeIsDeclared ==
    last.op = "kaiakValueToTF"
        => /\ last.ret.type = kaiakTypeToAttrType(meta.Attributes[1].Type)
           /\ \A k \in DOMAIN last.ret.elems :
                 last.ret.elems[k].type = From(last.ret.type, 1)

-----------------------------------------------------------------------------
(* AttrInfo locations, checked under SpecSchema *)

\* C25 as stated: after a successful translation every AttrInfo names a leaf
\* of the returned schema: a top-level field is a top-level attribute that is
\* no block, and a (block, field) is a member of the nested attribute `block`
C25_InfoNamesLeaf ==
    (built.called /\ ~HasError(built.diags)) =>
        \A i \in DOMAIN built.infos.items :
            LET info == built.infos.items[i]
                top == built.schema.Attributes
            IN IF info.tfBlock = <<>>
               THEN /\ info.tfField \in DOMAIN top
                    /\ top[info.tfField].kind # "SingleNested"
               ELSE /\ info.tfBlock \in DOMAIN top
                    /\ top[info.tfBlock].kind = "SingleNested"
                    /\ info.tfField \in DOMAIN top[info.tfBlock].Attributes

-----------------------------------------------------------------------------
(* Extraction, checked under SpecExtract *)

\* extractAttrs applied to a plan of the resource type's schema
Extract ==
    /\ \E plan \in Plans :
          LET got(ext) ==
                  last' = [op |-> "extractAttrs", arg |-> plan, diags |-> ext.diags,
                           calls |-> <<>>, ret |-> ext.state]
          IN got(extractAttrs(tfSchema, plan, getInfos(infos)))
    /\ infos' = getInfos(infos)
    /\ UNCHANGED <<meta, client, built, remote, tfSchema, tfState, pc, provider,
                   environ>>

SpecExtract == InitLeaf /\ [][Extract]_vars

\* The value a plan holds at the location of descriptor a: the top-level
\* value, or the member of the block when the block is known
planned(plan, a) ==
    IF newAttrInfo(a).tfBlock = <<>> THEN plan.vals[newAttrInfo(a).tfField]
    ELSE IF plan.vals[newAttrInfo(a).tfBlock].st # "known"
    THEN plan.vals[newAttrInfo(a).tfBlock]
    ELSE plan.vals[newAttrInfo(a).tfBlock].attrs[newAttrInfo(a).tfField]

\* C26 as stated: the attribute set extractAttrs produces has a key for
\* exactly the descriptors that are not read-only and whose planned value is
\* known and not null, under the descriptor's dotted name
C26_ExtractsExactlyWritableKnown ==
    last.op = "extractAttrs" =>
        DOMAIN last.ret =
            { meta.Attributes[i].Name :
                i \in { j \in DOMAIN meta.Attributes :
                          /\ ~meta.Attributes[j].ReadOnly
                          /\ planned(last.arg, meta.Attributes[j]).st = "known" } }

-----------------------------------------------------------------------------
(* The order of Create's requests, checked under Spec *)

-----------------------------------------------------------------------------
(* Identity, checked under Spec *)

\* C28 as stated: whatever Create, ImportState, Read, Update and Delete have run, a
\* record that is set holds in `id` a known string whose segment before the
\* first dot is the controller's resource type, and every request Read,
\* Update and Delete make is addressed to the `id` the record held when the
\* handler was called
C28_IdentityType ==
    [][/\ ~tfState'.isNull =>
            /\ tfState'.vals[<<"id">>].type = <<"String">>
            /\ tfState'.vals[<<"id">>].st = "known"
            /\ wellFormed(tfState'.vals[<<"id">>].s)
            /\ typeOf(tfState'.vals[<<"id">>].s) = meta.Name
       /\ last'.op \in {"Read", "Update", "Delete"} =>
            \A k \in DOMAIN last'.calls :
                last'.calls[k].name = ValueString(tfState.vals[<<"id">>])
      ]_vars

-----------------------------------------------------------------------------
(* Extraction of block members, checked under SpecMembers *)

\* extractBlockAttr applied to the member of a block object, for a writable
\* descriptor of a block and a member value of any terraform type
ExtractMember ==
    /\ newAttrInfo(meta.Attributes[1]).tfBlock # <<>>
    /\ ~meta.Attributes[1].ReadOnly
    /\ \E v \in {plannedValue(kaiakTypeToAttrType(t)) : t \in TypeTags}
                  \cup {TFNull(<<"String">>), TFUnknown(<<"String">>)} :
          last' = [op |-> "extractBlockAttr", arg |-> v, diags |-> <<>>,
                   calls |-> <<>>,
                   ret |-> extractBlockAttr(newAttrInfo(meta.Attributes[1]), v, <<>>)]
    /\ UNCHANGED <<meta, client, infos, built, remote, tfSchema, tfState, pc,
                   provider, environ>>

SpecMembers == InitLeaf /\ [][ExtractMember]_vars

\* The types.X the element accessor of tfElemToGo expects for a tag
elemKind(t) ==
    CASE t = <<"bool">> -> "Bool"
      [] t = <<"int">> \/ t = <<"uint">> -> "Int64"
      [] t = <<"float">> -> "Float64"
      [] OTHER -> "String"

\* The string a terraform value is sent as when no accessor fits it: the
\* content of a string, fmt's rendering of any other value
rendering(v) == IF v.type = <<"String">> THEN DString(ValueString(v)) ELSE DString(tfString(v))

\* C29 as stated: a known member whose terraform kind is not the one read
\* for the descriptor's tag is stored as its string rendering, and an
\* element of a stored list or map whose kind is not the one read for the
\* element tag is stored as its string rendering
C29_ExtractionTotal ==
    (last.op = "extractBlockAttr" /\ last.arg.st = "known") =>
        LET a == meta.Attributes[1]
            v == last.arg
        IN IF v.type[1] # targetKind(a.Type)
           THEN last.ret = (a.Name :> rendering(v))
           ELSE (a.Name \in DOMAIN last.ret /\ v.type[1] = "List") =>
                   \A i \in DOMAIN v.elems :
                       v.elems[i].type # <<elemKind(From(a.Type, 2))>> =>
                           last.ret[a.Name].vals[i] = rendering(v.elems[i])

-----------------------------------------------------------------------------
(* Blocks in the record, checked under SpecWriteState *)

\* writeState on a record that earlier calls have written: a resource type
\* with a top-level attribute, a block of a string and a read-only integer,
\* and a block of one string; a server whose instance reports each attribute
\* or not, with a value of its type, of another type, or nil
InitWriteState ==
    /\ meta = [Name |-> ResourceName,
               Attributes |-> <<Descriptor(<<"a">>, STRING_T, FALSE, FALSE),
                                Descriptor(<<"tls", DOT, "cert">>, STRING_T, FALSE, FALSE),
                                Descriptor(<<"tls", DOT, "expiry">>, INT_T, FALSE, TRUE),
                                Descriptor(<<"db", DOT, "url">>, STRING_T, FALSE, FALSE)>>]
    /\ client = TRUE
    /\ infos = NilSlice
    /\ built = NoBuild
    /\ remote \in
         { (ResourceName \o <<DOT, "docs">>) :> S :
             S \in UNION { choices(K, [n \in K |->
                               IF n = <<"tls", DOT, "expiry">>
                               THEN {DNil, DFloat64(1), DString(<<"s1">>)}
                               ELSE {DNil, DString(<<"s1">>)}]) :
                           K \in SUBSET {meta.Attributes[i].Name :
                                            i \in DOMAIN meta.Attributes} } }
    /\ tfSchema = buildResourceSchema(meta.Name, meta.Attributes).schema
    /\ tfState = NullState
    /\ last = NoOp
    /\ pc = NoCalls
    /\ provider = NewProvider
    /\ environ = Unset

\* writeState with the fallback of a Create or Update, or with none (Read)
WriteState ==
    \E name \in DOMAIN remote, getOk \in BOOLEAN,
       F \in {NilAttrs} \cup {Attrs(m) : m \in StatesOf(WritableNames, DString(<<"v1">>))} :
       Returned("writeState", [name |-> name, F |-> F, prior |-> tfState],
                writeState(name, tfState, <<>>, <<>>, F, remote, infos, getOk))

SpecWriteState == InitWriteState /\ [][WriteState]_vars

\* C30 as stated: once writeState has fetched the instance, it sets a block to
\* a null object exactly when no member of the block has a non-nil value
\* in the reconciled state, and otherwise to an object of all the block's
\* members in which a member without a value is the null of its type and a
\* member with a value is that value decoded; and a writeState without error
\* leaves every top-level attribute of the table as the reconciled state has
\* it, whatever the record held before
C30_BlockWrite ==
    (last.op = "writeState" /\ last.calls[1].ok) =>
        LET list == getInfos(infos).items
            merged == mergeState(remote[last.arg.name], last.arg.F, getInfos(infos))
            has(i) == /\ list[i].kaiakName \in DOMAIN merged
                      /\ merged[list[i].kaiakName].k # "nil"
            members(B) == {i \in DOMAIN list : list[i].tfBlock = B}
        IN /\ \A B \in {list[i].tfBlock : i \in DOMAIN list} \ {<<>>} :
                 /\ tfState.vals[B].st = "null" <=> \A i \in members(B) : ~has(i)
                 /\ (\E i \in members(B) : has(i)) =>
                       /\ tfState.vals[B].st = "known"
                       /\ DOMAIN tfState.vals[B].attrs
                             = {list[i].tfField : i \in members(B)}
                       /\ \A i \in members(B) :
                             tfState.vals[B].attrs[list[i].tfField] =
                                 IF has(i)
                                 THEN kaiakValueToTF(merged[list[i].kaiakName],
                                                     list[i].attr.Type)
                                 ELSE TFNull(kaiakTypeToAttrType(list[i].attr.Type))
           /\ ~HasError(last.diags) =>
                 \A i \in DOMAIN list :
                     list[i].tfBlock = <<>> =>
                         tfState.vals[list[i].tfField]
                             = kaiakValueToTF(lookup(merged, list[i].kaiakName),
                                              list[i].attr.Type)

====
